---------------------------- MODULE Spec2Model ----------------------------
(***************************************************************************)
(* LiveTraffic, src/Src/LTApt.cpp: the airport graph (taxi nodes, runway   *)
(* endpoints, edges), its construction from apt.dat records, the heading   *)
(* index, the bounded shortest-path search and the landing-runway search.  *)
(*                                                                         *)
(* Conventions of the model                                                *)
(*  - Coordinates are integers: metres on a local plane, lat northward and *)
(*    lon eastward.  A missing value (C++ NAN) is the number NaN.           *)
(*  - Angles are integer degrees.  Distances are integer metres.           *)
(*  - Vectors are sequences; the C++ index i is the model index i+1.       *)
(*    ULONG_MAX ("no index") is 0, ULONG_MAX-1 ("is a start node") is -1.  *)
(***************************************************************************)
EXTENDS Integers, Sequences, FiniteSets, TLC

VARIABLES
    apt,        \* the Apt object under construction
    gmapApt,    \* the global map of airports: id -> Apt, filled by Apt::AddApt
    phase,      \* "build" | "published" : before / after Apt::AddApt
    netwType,   \* ReadOneAptFile: which taxi network format has been accepted
    ret,        \* the last call: its name, arguments and result
    thr         \* the threads: mutex, stop flag, future, file reading jobs

vars == <<apt, gmapApt, phase, netwType, ret, thr>>

-----------------------------------------------------------------------------
(* Sentinels and small helpers                                             *)

NaN == -999999
ULONG_MAX == 0
START_NODE == -1
HUGE_VAL == 1000000

\* the number of threads std::async can run at a time
NumThreads == 2
\* a thread that std::async has not started
NoJob == [pc |-> "none"]
\* the threads before LTAptEnable: nothing runs, nothing is locked;
\* present tells of each apt.dat file whether it can be opened
NoThreads ==
    [present |-> <<TRUE, TRUE>>,
     mtx |-> 0, bStopThread |-> FALSE, futValid |-> FALSE, futJob |-> 0,
     lastCameraPos |-> [lat |-> NaN, lon |-> NaN], bAptsAdded |-> FALSE,
     YProbe |-> "NULL", fg |-> "idle",
     access |-> [by |-> 0, what |-> "none", locked |-> TRUE],
     w |-> [j \in 1..NumThreads |-> NoJob]]

RUN_WAY == "RUN_WAY"
TAXI_WAY == "TAXI_WAY"
UNKNOWN_WAY == "UNKNOWN_WAY"

Abs(x) == IF x < 0 THEN -x ELSE x
Min(x, y) == IF x <= y THEN x ELSE y
Max(x, y) == IF x >= y THEN x ELSE y
Sqr(x) == x * x

\* largest r with r*r <= v
ISqrt(v) == CHOOSE r \in 0..v : Sqr(r) <= v /\ Sqr(r + 1) > v

SeqToSet(s) == {s[i] : i \in 1..Len(s)}

\* the sequence s without every occurrence of x
RECURSIVE RemoveAll(_, _)
RemoveAll(s, x) ==
    IF s = <<>> THEN <<>>
    ELSE IF Head(s) = x THEN RemoveAll(Tail(s), x)
         ELSE <<Head(s)>> \o RemoveAll(Tail(s), x)

-----------------------------------------------------------------------------
(* Geometry utilities (CoordCalc: not part of src/, modelled on integers)  *)

\* 10000 * tan(d degrees) for d = 0..45, rounded down
TanTab == <<0, 174, 349, 524, 699, 874, 1051, 1227, 1405, 1583, 1763, 1943,
            2125, 2308, 2493, 2679, 2867, 3057, 3249, 3443, 3639, 3838, 4040,
            4244, 4452, 4663, 4877, 5095, 5317, 5543, 5773, 6008, 6248, 6494,
            6745, 7002, 7265, 7535, 7812, 8097, 8390, 8692, 9004, 9325, 9656,
            10000>>

\* atan(num/den) in whole degrees, for 0 <= num <= den, den > 0: 0..45
AtanDeg(num, den) ==
    CHOOSE d \in 0..45 :
        /\ TanTab[d + 1] * den <= 10000 * num
        /\ (d < 45 => TanTab[d + 2] * den > 10000 * num)

\* angle of the vector (dx east, dy north) against north, clockwise, 0..90,
\* for dx >= 0, dy >= 0, not both 0
QuadrantDeg(dx, dy) ==
    IF dx <= dy THEN AtanDeg(dx, dy) ELSE 90 - AtanDeg(dy, dx)

\* heading from point 1 to point 2 in [0,360); identical points give 0
CoordAngle(lat1, lon1, lat2, lon2) ==
    LET dx == lon2 - lon1
        dy == lat2 - lat1
    IN  IF dx = 0 /\ dy = 0 THEN 0
        ELSE IF dx >= 0 /\ dy > 0 THEN QuadrantDeg(dx, dy)
        ELSE IF dx > 0 /\ dy <= 0 THEN 180 - QuadrantDeg(dx, -dy)
        ELSE IF dx <= 0 /\ dy < 0 THEN 180 + QuadrantDeg(-dx, -dy)
        ELSE 360 - QuadrantDeg(-dx, dy)

DistLatLonSqr(lat1, lon1, lat2, lon2) == Sqr(lat2 - lat1) + Sqr(lon2 - lon1)
DistLatLon(lat1, lon1, lat2, lon2) == ISqrt(DistLatLonSqr(lat1, lon1, lat2, lon2))

\* heading into [0,360)
HeadingNormalize(h) == h % 360

\* signed difference head2 - head1 taken the short way round, in [-180,180]
HeadingDiff(head1, head2) ==
    IF Abs(head2 - head1) > 180
    THEN IF head1 < head2 THEN head2 - (head1 + 360) ELSE (head2 + 360) - head1
    ELSE head2 - head1

\* boundingBoxTy: either unset or the south/north/west/east limits
NoBounds == [set |-> FALSE]
enlarge_pos(b, lat, lon) ==
    IF ~b.set THEN [set |-> TRUE, s |-> lat, n |-> lat, w |-> lon, e |-> lon]
    ELSE [set |-> TRUE, s |-> Min(b.s, lat), n |-> Max(b.n, lat),
          w |-> Min(b.w, lon), e |-> Max(b.e, lon)]
enlarge_m(b, m) ==
    IF ~b.set THEN b
    ELSE [set |-> TRUE, s |-> b.s - m, n |-> b.n + m, w |-> b.w - m, e |-> b.e + m]
contains(b, lat, lon) ==
    b.set /\ b.s <= lat /\ lat <= b.n /\ b.w <= lon /\ lon <= b.e
overlap(b1, b2) ==
    /\ b1.set /\ b2.set
    /\ b1.s <= b2.n /\ b2.s <= b1.n
    /\ b1.w <= b2.e /\ b2.w <= b1.e


-----------------------------------------------------------------------------
(* Configuration constants (Constants.h: not part of src/)                 *)

\* [m] two taxi nodes closer than this are "similar" and become one node
APT_MAX_SIMILAR_NODE_DIST_M == 2
\* fraction of the runway length between threshold and touch-down point: 1/10
ART_RWY_TD_POINT_DIV == 10
\* [m] an open taxiway end is joined to an edge at most this far away
APT_JOIN_MAX_DIST_M == 3
\* [deg] first and second priority heading tolerance when joining open ends
APT_JOIN_ANGLE_TOLERANCE == 15
APT_JOIN_ANGLE_TOLERANCE_EXT == 45
\* [m] a second-priority match must be this much closer to win
ART_EDGE_ANGLE_EXT_DIST == 5
\* [m] the margin added to an airport's bounding box when it is published
\* (dataRefs.GetFdSnapTaxiDist_m())
FdSnapTaxiDist_m == 3

-----------------------------------------------------------------------------
(* Data model: TaxiNode, RwyEndPt, TaxiEdge, Apt                           *)

\* the value of a Dijkstra attribute that was never written
Uninit == -7

\* TaxiNode(lat,lon): the Dijkstra attributes are left uninitialised (they
\* are only read after InitDijkstraAttr has set them)
TaxiNode(lat, lon) ==
    [lat |-> lat, lon |-> lon, vecEdges |-> <<>>,
     pathLen |-> Uninit, prevIdx |-> Uninit, bVisited |-> FALSE]

\* RwyEndPt(id,lat,lon): altitude unknown until probed
RwyEndPt(id, lat, lon) ==
    [id |-> id, lat |-> lat, lon |-> lon, alt_m |-> NaN, vecTaxiNodes |-> <<>>]

HasGeoCoords(n) == n.lat # NaN /\ n.lon # NaN

\* TaxiEdge::Normalize with ">" for ">=": the slip the angle invariant detects
NormalizeOffByOne(e) ==
    IF e.angle > 180
    THEN [e EXCEPT !.a = e.b, !.b = e.a, !.angle = e.angle - 180]
    ELSE e

\* TaxiEdge::Normalize: bring the angle into [0,180), swapping a and b
Normalize(e) ==
    IF e.angle >= 180
    THEN [e EXCEPT !.a = e.b, !.b = e.a, !.angle = e.angle - 180]
    ELSE e

\* TaxiEdge constructor
TaxiEdge(type, a, b, angle, dist_m) ==
    Normalize([type |-> type, a |-> a, b |-> b, angle |-> angle, dist_m |-> dist_m])

\* TaxiEdge::SetEndNode
SetEndNode(e, b, angle, dist_m) ==
    Normalize([e EXCEPT !.b = b, !.angle = angle, !.dist_m = dist_m])

\* TaxiEdge::GetA / GetB: runway edges index the runway endpoints
GetA(a, e) == IF e.type = RUN_WAY THEN a.vecRwyEndPts[e.a] ELSE a.vecTaxiNodes[e.a]
GetB(a, e) == IF e.type = RUN_WAY THEN a.vecRwyEndPts[e.b] ELSE a.vecTaxiNodes[e.b]

GetAngleFrom(e, n) == IF n = e.a THEN e.angle ELSE e.angle + 180
GetAngleByHead(e, heading) ==
    IF Abs(HeadingDiff(heading, e.angle)) < 90 THEN e.angle ELSE e.angle + 180
startByHeading(e, heading) ==
    IF Abs(HeadingDiff(heading, e.angle)) < 90 THEN e.a ELSE e.b
endByHeading(e, heading) ==
    IF Abs(HeadingDiff(heading, e.angle)) < 90 THEN e.b ELSE e.a
otherNode(e, n) == IF n = e.a THEN e.b ELSE e.a

\* Apt(id)
NewApt(id) ==
    [id |-> id, bounds |-> NoBounds, alt_m |-> NaN,
     vecTaxiNodes |-> <<>>, vecRwyEndPts |-> <<>>, vecTaxiEdges |-> <<>>,
     vecTaxiEdgesIdxHead |-> <<>>]

HasId(a) == a.id # ""
HasTaxiWays(a) == a.vecTaxiEdges # <<>>
HasRwyEndpoints(a) == a.vecRwyEndPts # <<>>
\* Apt::IsValid that asks for the id only
IsValidIdOnly(a) == HasId(a)
\* Apt::IsValid
IsValid(a) == HasId(a) /\ HasTaxiWays(a) /\ HasRwyEndpoints(a)

-----------------------------------------------------------------------------
(* GraphBuilder                                                            *)

\* does node n lie within the similar-node distance of (lat,lon)?
SimilarTo(n, lat, lon) ==
    /\ HasGeoCoords(n)
    /\ Abs(n.lat - lat) <= APT_MAX_SIMILAR_NODE_DIST_M
    /\ Abs(n.lon - lon) <= APT_MAX_SIMILAR_NODE_DIST_M

\* GetSimilarTaxiNode that forgets the excluded index
GetSimilarTaxiNodeNoExclude(a, lat, lon, dontCombineWith) ==
    LET hits == {i \in 1..Len(a.vecTaxiNodes) : SimilarTo(a.vecTaxiNodes[i], lat, lon)}
    IN  IF hits = {} THEN ULONG_MAX
        ELSE CHOOSE i \in hits : \A j \in hits : i <= j

\* Apt::GetSimilarTaxiNode: the first node close to (lat,lon) that is not
\* dontCombineWith; ULONG_MAX (cend) if there is none
GetSimilarTaxiNode(a, lat, lon, dontCombineWith) ==
    LET hits == {i \in 1..Len(a.vecTaxiNodes) :
                    /\ i # dontCombineWith
                    /\ SimilarTo(a.vecTaxiNodes[i], lat, lon)}
    IN  IF hits = {} THEN ULONG_MAX
        ELSE CHOOSE i \in hits : \A j \in hits : i <= j

\* AddTaxiNode that never looks for a similar node
AddTaxiNodeNoLookup(a, lat, lon, dontCombineWith) ==
    [apt |-> [a EXCEPT !.bounds = enlarge_pos(a.bounds, lat, lon),
                       !.vecTaxiNodes = Append(a.vecTaxiNodes, TaxiNode(lat, lon))],
     idx |-> Len(a.vecTaxiNodes) + 1]

\* Apt::AddTaxiNode: [apt, idx]
AddTaxiNode(a, lat, lon, dontCombineWith) ==
    LET found == GetSimilarTaxiNode(a, lat, lon, dontCombineWith)
    IN  IF found # ULONG_MAX
        THEN [apt |-> a, idx |-> found]
        ELSE [apt |-> [a EXCEPT !.bounds = enlarge_pos(a.bounds, lat, lon),
                                !.vecTaxiNodes = Append(a.vecTaxiNodes, TaxiNode(lat, lon))],
              idx |-> Len(a.vecTaxiNodes) + 1]

\* Apt::AddTaxiNodeFixed: place a node at index idx, filling gaps with
\* nodes that have no coordinates
AddTaxiNodeFixed(a, lat, lon, idx) ==
    LET n == Len(a.vecTaxiNodes)
        grown == [i \in 1..Max(n, idx) |->
                    IF i = idx THEN TaxiNode(lat, lon)
                    ELSE IF i <= n THEN a.vecTaxiNodes[i]
                    ELSE TaxiNode(NaN, NaN)]
    IN  [a EXCEPT !.bounds = enlarge_pos(a.bounds, lat, lon),
                  !.vecTaxiNodes = grown]

\* Apt::AddTaxiEdge: [apt, idx, threw]; vector::at throws on a bad index
AddTaxiEdge(a, n1, n2) ==
    IF ~(n1 \in 1..Len(a.vecTaxiNodes) /\ n2 \in 1..Len(a.vecTaxiNodes))
    THEN [apt |-> a, idx |-> ULONG_MAX, threw |-> TRUE]
    ELSE
    LET na == a.vecTaxiNodes[n1]
        nb == a.vecTaxiNodes[n2]
    IN  IF ~HasGeoCoords(na) \/ ~HasGeoCoords(nb)
        THEN [apt |-> a, idx |-> ULONG_MAX, threw |-> FALSE]
        ELSE
        LET e == TaxiEdge(TAXI_WAY, n1, n2,
                          CoordAngle(na.lat, na.lon, nb.lat, nb.lon),
                          DistLatLon(na.lat, na.lon, nb.lat, nb.lon))
            eIdx == Len(a.vecTaxiEdges) + 1
            nodes1 == [a.vecTaxiNodes EXCEPT ![n1].vecEdges = Append(@, eIdx)]
            nodes2 == [nodes1 EXCEPT ![n2].vecEdges = Append(@, eIdx)]
        IN  [apt |-> [a EXCEPT !.vecTaxiEdges = Append(a.vecTaxiEdges, e),
                               !.vecTaxiNodes = nodes2],
             idx |-> eIdx, threw |-> FALSE]

\* Apt::RecalcTaxiEdge
RecalcTaxiEdge(a, eIdx) ==
    LET e == a.vecTaxiEdges[eIdx]
        na == GetA(a, e)
        nb == GetB(a, e)
        e2 == Normalize([e EXCEPT !.angle = CoordAngle(na.lat, na.lon, nb.lat, nb.lon),
                                  !.dist_m = DistLatLon(na.lat, na.lon, nb.lat, nb.lon)])
    IN  [a EXCEPT !.vecTaxiEdges[eIdx] = e2]

\* Apt::SplitEdge: edge eIdx now ends at insNode, a new edge joins insNode
\* and the original end node
SplitEdge(a, eIdx, insNode) ==
    LET e == a.vecTaxiEdges[eIdx]
    IN  IF insNode = e.a \/ insNode = e.b THEN a
        ELSE
        LET joinOrigB == e.b
            na == GetA(a, e)
            nb == a.vecTaxiNodes[insNode]
            e2 == SetEndNode(e, insNode,
                             CoordAngle(na.lat, na.lon, nb.lat, nb.lon),
                             DistLatLon(na.lat, na.lon, nb.lat, nb.lon))
            nodes1 == [a.vecTaxiNodes EXCEPT ![insNode].vecEdges = Append(@, eIdx)]
            nodes2 == [nodes1 EXCEPT ![joinOrigB].vecEdges = RemoveAll(@, eIdx)]
            a2 == [a EXCEPT !.vecTaxiEdges[eIdx] = e2, !.vecTaxiNodes = nodes2]
        IN  AddTaxiEdge(a2, insNode, joinOrigB).apt

\* x is placed before the first element of the sorted index whose angle is larger
RECURSIVE InsertByAngle(_, _, _)
InsertByAngle(edges, sorted, x) ==
    IF sorted = <<>> THEN <<x>>
    ELSE IF edges[x].angle < edges[Head(sorted)].angle THEN <<x>> \o sorted
         ELSE <<Head(sorted)>> \o InsertByAngle(edges, Tail(sorted), x)

RECURSIVE SortByAngle(_, _)
SortByAngle(edges, idx) ==
    IF idx = <<>> THEN <<>>
    ELSE InsertByAngle(edges, SortByAngle(edges, SubSeq(idx, 1, Len(idx) - 1)), idx[Len(idx)])

\* Apt::SortTaxiEdges without the std::sort: the index is only rebuilt if
\* its size is off
SortTaxiEdgesResizeOnly(a) ==
    IF Len(a.vecTaxiEdges) # Len(a.vecTaxiEdgesIdxHead)
    THEN [a EXCEPT !.vecTaxiEdgesIdxHead = [i \in 1..Len(a.vecTaxiEdges) |-> i]]
    ELSE a

\* Apt::SortTaxiEdges: rebuild the index if its size is off, then sort it by
\* edge angle (std::sort leaves the order of equal angles open; the model
\* keeps their previous order)
SortTaxiEdges(a) ==
    LET n == Len(a.vecTaxiEdges)
        idx == IF n # Len(a.vecTaxiEdgesIdxHead) THEN [i \in 1..n |-> i]
               ELSE a.vecTaxiEdgesIdxHead
    IN  [a EXCEPT !.vecTaxiEdgesIdxHead = SortByAngle(a.vecTaxiEdges, idx)]

\* Apt::AddRwyEnds: the two touch-down points and the runway edge
AddRwyEnds(a, lat1, lon1, displaced1, id1, lat2, lon2, displaced2, id2) ==
    LET angle == CoordAngle(lat1, lon1, lat2, lon2)
        full == DistLatLon(lat1, lon1, lat2, lon2)
        dist == full - displaced1 - displaced2
        \* distance moved inward from each end
        in1 == displaced1 + dist \div ART_RWY_TD_POINT_DIV
        in2 == displaced2 + dist \div ART_RWY_TD_POINT_DIV
        Along(from, to, d) == IF full = 0 THEN from ELSE from + ((to - from) * d) \div full
        re1lat == Along(lat1, lat2, in1)
        re1lon == Along(lon1, lon2, in1)
        re2lat == Along(lat2, lat1, in2)
        re2lon == Along(lon2, lon1, in2)
        n == Len(a.vecRwyEndPts)
        b1 == enlarge_pos(a.bounds, re1lat, re1lon)
        b2 == enlarge_pos(b1, re2lat, re2lon)
    IN  [a EXCEPT !.bounds = b2,
                  !.vecRwyEndPts = a.vecRwyEndPts \o
                        <<RwyEndPt(id1, re1lat, re1lon), RwyEndPt(id2, re2lat, re2lon)>>,
                  !.vecTaxiEdges = Append(a.vecTaxiEdges,
                        TaxiEdge(RUN_WAY, n + 1, n + 2, angle,
                                 dist - 2 * (dist \div ART_RWY_TD_POINT_DIV)))]

-----------------------------------------------------------------------------
(* SpatialEdgeIndex: FindEdgesForHeading, FindClosestEdge                  *)

\* std::lower_bound over the index: the first position (1-based) whose edge
\* angle is not less than val; Len+1 if there is none.  The bisection is the
\* library's, so an index that is not sorted gives what the code would get.
RECURSIVE LowerBoundFrom(_, _, _, _, _)
LowerBoundFrom(edges, idx, val, first, count) ==
    IF count <= 0 THEN first
    ELSE LET step == count \div 2
             it == first + step
         IN  IF edges[idx[it]].angle < val
             THEN LowerBoundFrom(edges, idx, val, it + 1, count - (step + 1))
             ELSE LowerBoundFrom(edges, idx, val, first, step)
LowerBound(edges, idx, val) == LowerBoundFrom(edges, idx, val, 1, Len(idx))

\* the loop over one range: from position pos on, while the angle is <= hi
RECURSIVE ScanRange(_, _, _, _, _)
ScanRange(edges, idx, pos, hi, restrictType) ==
    IF pos > Len(idx) \/ edges[idx[pos]].angle > hi THEN <<>>
    ELSE (IF restrictType = UNKNOWN_WAY \/ restrictType = edges[idx[pos]].type
          THEN <<idx[pos]>> ELSE <<>>)
         \o ScanRange(edges, idx, pos + 1, hi, restrictType)

\* the one or two search ranges of FindEdgesForHeading
HeadingRanges(headSearch, angleTolerance) ==
    LET h == IF headSearch >= 180 THEN headSearch - 180 ELSE headSearch
        headBegin == h - angleTolerance
        headEnd == h + angleTolerance
    IN  IF 0 <= headBegin /\ headEnd < 180 THEN << <<headBegin, headEnd>> >>
        ELSE IF headBegin < 0 THEN << <<0, headEnd>>, <<headBegin + 180, 180>> >>
        ELSE << <<0, headEnd - 180>>, <<headBegin, 180>> >>

\* FindEdgesForHeading without the second range of a wrapped window
FindEdgesForHeadingNoWrap(a, headSearch, angleTolerance, restrictType) ==
    LET r == HeadingRanges(headSearch, angleTolerance)[1]
    IN  ScanRange(a.vecTaxiEdges, a.vecTaxiEdgesIdxHead,
                  LowerBound(a.vecTaxiEdges, a.vecTaxiEdgesIdxHead, r[1]),
                  r[2], restrictType)

\* Apt::FindEdgesForHeading: the list of matching edge indexes
FindEdgesForHeading(a, headSearch, angleTolerance, restrictType) ==
    LET rs == HeadingRanges(headSearch, angleTolerance)
        One(r) == ScanRange(a.vecTaxiEdges, a.vecTaxiEdgesIdxHead,
                            LowerBound(a.vecTaxiEdges, a.vecTaxiEdgesIdxHead, r[1]),
                            r[2], restrictType)
    IN  IF Len(rs) = 1 THEN One(rs[1]) ELSE One(rs[1]) \o One(rs[2])

\* penalty on the squared distance of a second-priority match
SCND_PRIO_ADD == 3 * ART_EDGE_ANGLE_EXT_DIST + ART_EDGE_ANGLE_EXT_DIST * ART_EDGE_ANGLE_EXT_DIST

\* rounded quotient, also for negative numerators (den > 0)
RoundDiv(num, den) == (2 * num + den) \div (2 * den)

\* DistPointToLineSqr for the point (plat,plon) and the segment from -> to,
\* kept as exact fractions over len2:
\*   dist2 = cross2 / len2     squared distance to the line
\*   t     = along / len2      position of the base point along the segment
\* A segment of length 0 is taken as its point.
DistPointToLineSqr(plat, plon, from, to) ==
    LET dx == to.lon - from.lon
        dy == to.lat - from.lat
        px == plon - from.lon
        py == plat - from.lat
        len2 == Sqr(dx) + Sqr(dy)
    IN  IF len2 = 0
        THEN [len2 |-> 1, cross2 |-> Sqr(px) + Sqr(py), along |-> 0, dx |-> 0, dy |-> 0]
        ELSE [len2 |-> len2, cross2 |-> Sqr(px * dy - py * dx),
              along |-> px * dx + py * dy, dx |-> dx, dy |-> dy]

\* distToLineTy::DistSqrOfBaseBeyondLine, times len2
BeyondTimesLen2(d) ==
    IF d.along < 0 THEN Sqr(d.along)
    ELSE IF d.along > d.len2 THEN Sqr(d.along - d.len2)
    ELSE 0

\* DistResultToBaseLoc: the base point, rounded to whole metres
BaseLoc(from, d) ==
    [lat |-> from.lat + RoundDiv(d.dy * d.along, d.len2),
     lon |-> from.lon + RoundDiv(d.dx * d.along, d.len2)]

NoEdge == [found |-> FALSE]

\* the comparison that keeps whatever match was found first
FartherThanBestFirstWins(prio, len2, best) == best.found
FartherThanBestNever(prio, len2, best) == FALSE
\* prioDist >= bestPrioDist: farther than the best match known; the
\* distances are fractions prio / len2, and nothing compares with NAN
FartherThanBest(prio, len2, best) ==
    best.found /\ prio * best.len2 >= best.prio * len2

\* the loop of FindClosestEdge over the candidate list; best carries the
\* best match so far with its prioritised squared distance prio / len2
RECURSIVE ClosestLoop(_, _, _, _, _, _, _, _)
ClosestLoop(a, lst, plat, plon, headSearch, maxDist2, angleTolerance, skipEdge) ==
    IF lst = <<>> THEN NoEdge
    ELSE
    LET rest == ClosestLoop(a, SubSeq(lst, 1, Len(lst) - 1), plat, plon,
                            headSearch, maxDist2, angleTolerance, skipEdge)
        eIdx == lst[Len(lst)]
        e == a.vecTaxiEdges[eIdx]
        fwd == Abs(HeadingDiff(headSearch, e.angle)) < 90
        from == IF fwd THEN GetA(a, e) ELSE GetB(a, e)
        to == IF fwd THEN GetB(a, e) ELSE GetA(a, e)
        edgeAngle == GetAngleByHead(e, headSearch)
        d == DistPointToLineSqr(plat, plon, from, to)
        prio == d.cross2 +
                (IF Abs(HeadingDiff(edgeAngle, headSearch)) > angleTolerance
                 THEN SCND_PRIO_ADD * d.len2 ELSE 0)
    IN  IF eIdx = skipEdge THEN rest
        ELSE IF d.cross2 > maxDist2 * d.len2 THEN rest
        ELSE IF FartherThanBest(prio, d.len2, rest) THEN rest
        ELSE IF BeyondTimesLen2(d) > maxDist2 * d.len2 THEN rest
        ELSE [found |-> TRUE, eIdx |-> eIdx, prio |-> prio, len2 |-> d.len2,
              base |-> BaseLoc(from, d)]

\* Apt::FindClosestEdge for a position (lat,lon,heading):
\* [found, eIdx, base] ; skipEdge is an edge index or ULONG_MAX
FindClosestEdge(a, plat, plon, heading, maxDist_m, angleTolerance, angleToleranceExt, skipEdge) ==
    LET headSearch == HeadingNormalize(heading)
        lst == FindEdgesForHeading(a, headSearch,
                                   Max(angleTolerance, angleToleranceExt), UNKNOWN_WAY)
    IN  ClosestLoop(a, lst, plat, plon, headSearch, Sqr(maxDist_m),
                    angleTolerance, skipEdge)

-----------------------------------------------------------------------------
(* JoinOpenTaxiEdges and publication                                       *)

\* one pass of the loop of JoinOpenTaxiEdges, for node i
JoinNode(a, i) ==
    LET n == a.vecTaxiNodes[i]
    IN  IF Len(n.vecEdges) # 1 THEN a
        ELSE
        LET eIdx == n.vecEdges[1]
            e == a.vecTaxiEdges[eIdx]
        IN  IF e.type = RUN_WAY THEN a
            ELSE
            LET taxiAngle == GetAngleFrom(e, i)
                join == FindClosestEdge(a, n.lat, n.lon, e.angle,
                                        APT_JOIN_MAX_DIST_M,
                                        APT_JOIN_ANGLE_TOLERANCE,
                                        APT_JOIN_ANGLE_TOLERANCE_EXT, eIdx)
            IN  IF ~join.found THEN a
                ELSE IF a.vecTaxiEdges[join.eIdx].type = RUN_WAY
                THEN LET rwyStart == startByHeading(a.vecTaxiEdges[join.eIdx], taxiAngle)
                     IN  [a EXCEPT !.vecRwyEndPts[rwyStart].vecTaxiNodes = Append(@, i)]
                ELSE LET moved == [a EXCEPT !.vecTaxiNodes[i].lat = join.base.lat,
                                            !.vecTaxiNodes[i].lon = join.base.lon]
                     IN  SortTaxiEdges(SplitEdge(RecalcTaxiEdge(moved, eIdx), join.eIdx, i))

RECURSIVE JoinFrom(_, _)
JoinFrom(a, i) ==
    IF i > Len(a.vecTaxiNodes) THEN a ELSE JoinFrom(JoinNode(a, i), i + 1)

\* Apt::JoinOpenTaxiEdges
JoinOpenTaxiEdges(a) == JoinFrom(a, 1)

\* Apt::AddApt up to the insertion into the map: margin, index, joins
PrepareApt(a) ==
    JoinOpenTaxiEdges(SortTaxiEdges([a EXCEPT !.bounds = enlarge_m(a.bounds, FdSnapTaxiDist_m)]))

\* the empty map of airports
NoApts == [k \in {} |-> NewApt("")]

\* Apt::AddApt that assigns to an entry that is already there
AddAptReplace(g, a) ==
    [k \in DOMAIN g \cup {a.id} |-> IF k = a.id THEN PrepareApt(a) ELSE g[k]]

\* Apt::AddApt: the prepared airport is emplaced under its id; map::emplace
\* leaves an entry that is already there alone
AddApt(g, a) ==
    IF a.id \in DOMAIN g THEN g
    ELSE [k \in DOMAIN g \cup {a.id} |-> IF k = a.id THEN PrepareApt(a) ELSE g[k]]

\* the id of the one airport of the construction and search specifications
TestId == "TEST"

-----------------------------------------------------------------------------
(* Construction of one airport: the calls the parser makes on an Apt, then *)
(* its publication by Apt::AddApt                                          *)

MaxNodes == 3
MaxTaxiEdges == 2
MaxRwys == 1

\* coordinates offered to the builder: <<lat, lon>>
BuildPts == {<<0, 0>>, <<0, 3>>, <<0, 6>>, <<1, 3>>}
\* runway ends offered to AddRwyEnds: <<lat1, lon1, lat2, lon2>>
BuildRwys == {<<0, 10, 0, 0>>, <<10, 0, 0, 0>>}
\* coordinates offered to the route network records
FixedPts == {<<0, 0>>, <<0, 6>>, <<1, 3>>}

NETW_UNKOWN == "NETW_UNKOWN"
NETW_CENTERLINES == "NETW_CENTERLINES"
NETW_TAXIROUTES == "NETW_TAXIROUTES"

NoCall == [op |-> "none"]

NumTaxiEdges(a) == Cardinality({i \in 1..Len(a.vecTaxiEdges) : a.vecTaxiEdges[i].type = TAXI_WAY})

InitBuild ==
    /\ apt = NewApt(TestId)
    /\ gmapApt = NoApts
    /\ phase = "build"
    /\ netwType = NETW_UNKOWN
    /\ ret = NoCall
    /\ thr = NoThreads

\* a runway record (100): both ends with displaced threshold 0
DoAddRwyEnds ==
    /\ phase = "build"
    /\ Len(apt.vecRwyEndPts) < 2 * MaxRwys
    /\ \E r \in BuildRwys :
        /\ apt' = AddRwyEnds(apt, r[1], r[2], 0, "A", r[3], r[4], 0, "B")
        /\ ret' = [op |-> "AddRwyEnds", angle |-> CoordAngle(r[1], r[2], r[3], r[4])]
    /\ UNCHANGED <<gmapApt, phase, netwType>>
    /\ UNCHANGED thr

\* a node of a centerline (120 block): AddTaxiNode(lat, lon, dontCombineWith)
DoAddTaxiNode ==
    /\ phase = "build"
    /\ HasRwyEndpoints(apt)
    /\ netwType # NETW_TAXIROUTES
    /\ \E p \in BuildPts, dont \in {ULONG_MAX} \cup (1..Len(apt.vecTaxiNodes)) :
        LET r == AddTaxiNode(apt, p[1], p[2], dont)
        IN  /\ Len(r.apt.vecTaxiNodes) <= MaxNodes
            /\ apt' = r.apt
    /\ netwType' = NETW_CENTERLINES
    /\ ret' = [op |-> "AddTaxiNode"]
    /\ UNCHANGED <<gmapApt, phase>>
    /\ UNCHANGED thr

\* a node of a route network (1201): AddTaxiNodeFixed(lat, lon, idx)
DoAddTaxiNodeFixed ==
    /\ phase = "build"
    /\ HasRwyEndpoints(apt)
    /\ netwType # NETW_CENTERLINES
    /\ \E p \in FixedPts, idx \in 1..MaxNodes :
        apt' = AddTaxiNodeFixed(apt, p[1], p[2], idx)
    /\ netwType' = NETW_TAXIROUTES
    /\ ret' = [op |-> "AddTaxiNodeFixed"]
    /\ UNCHANGED <<gmapApt, phase>>
    /\ UNCHANGED thr

\* an edge: between two nodes of a centerline, or a 1202 record whose two
\* indexes are whatever the file says
DoAddTaxiEdge ==
    /\ phase = "build"
    /\ netwType # NETW_UNKOWN
    /\ NumTaxiEdges(apt) < MaxTaxiEdges
    /\ \E n1 \in 1..MaxNodes, n2 \in 1..MaxNodes :
        LET r == AddTaxiEdge(apt, n1, n2)
        IN  /\ netwType = NETW_CENTERLINES => (n1 # n2 /\ ~r.threw)
            /\ apt' = r.apt
            /\ ret' = [op |-> "AddTaxiEdge", n1 |-> n1, n2 |-> n2, idx |-> r.idx,
                       threw |-> r.threw]
    /\ UNCHANGED <<gmapApt, phase, netwType>>
    /\ UNCHANGED thr

\* Apt::AddApt: a valid airport gets its margin, its index and its joins
DoAddApt ==
    /\ phase = "build"
    /\ IsValid(apt)
    /\ gmapApt' = AddApt(gmapApt, apt)
    \* the local object was moved into the map, and its lifetime ends
    /\ apt' = NewApt("")
    /\ phase' = "published"
    /\ ret' = [op |-> "AddApt", edgesBefore |-> Len(apt.vecTaxiEdges)]
    /\ UNCHANGED netwType
    /\ UNCHANGED thr

NextBuild ==
    \/ DoAddRwyEnds
    \/ DoAddTaxiNode
    \/ DoAddTaxiNodeFixed
    \/ DoAddTaxiEdge
    \/ DoAddApt

SpecBuild == InitBuild /\ [][NextBuild]_vars

\* C1: every edge of the edge store has an angle in [0,180), while the
\* airport is built and after it is published (runway edges, taxiway edges,
\* edges shortened, recalculated or added by JoinOpenTaxiEdges).
C1_AngleNormalized ==
    \A a \in {apt} \cup {gmapApt[k] : k \in DOMAIN gmapApt} :
        \A i \in 1..Len(a.vecTaxiEdges) :
            /\ 0 <= a.vecTaxiEdges[i].angle
            /\ a.vecTaxiEdges[i].angle < 180

\* a published airport in which JoinOpenTaxiEdges has split an edge, with a
\* runway that was given from north to south (heading 180 before Normalize)
C1_Witness ==
    /\ phase = "published"
    /\ ret.op = "AddApt"
    /\ Len(gmapApt[TestId].vecTaxiEdges) > ret.edgesBefore
    /\ \E i \in 1..Len(gmapApt[TestId].vecTaxiEdges) :
        /\ gmapApt[TestId].vecTaxiEdges[i].type = RUN_WAY
        /\ gmapApt[TestId].vecTaxiEdges[i].angle = 0
        /\ gmapApt[TestId].vecTaxiEdges[i].a > gmapApt[TestId].vecTaxiEdges[i].b

-----------------------------------------------------------------------------
(* Node deduplication: calls of AddTaxiNode on a growing node store        *)

\* coordinates offered to AddTaxiNode: one metre apart along a line, so that
\* some are closer to each other than APT_MAX_SIMILAR_NODE_DIST_M
MaxCoord == 4
NodePts == {<<0, l>> : l \in 0..MaxCoord} \cup {<<3, 0>>}

InitNode ==
    /\ apt = NewApt(TestId)
    /\ gmapApt = NoApts
    /\ phase = "build"
    /\ netwType = NETW_UNKOWN
    /\ ret = NoCall
    /\ thr = NoThreads

\* AddTaxiNode(lat, lon, dontCombineWith).  ret keeps the arguments, the
\* returned index, and "again": the call before was AddTaxiNode with the
\* same three arguments
CallAddTaxiNode ==
    /\ \E p \in NodePts, dont \in {ULONG_MAX} \cup (1..Len(apt.vecTaxiNodes)) :
        LET r == AddTaxiNode(apt, p[1], p[2], dont)
        IN  /\ Len(r.apt.vecTaxiNodes) <= MaxNodes
            /\ apt' = r.apt
            /\ ret' = [op |-> "AddTaxiNode", lat |-> p[1], lon |-> p[2],
                       dont |-> dont, idx |-> r.idx,
                       again |-> /\ ret.op = "AddTaxiNode"
                                 /\ ret.lat = p[1] /\ ret.lon = p[2] /\ ret.dont = dont]
    /\ UNCHANGED <<gmapApt, phase, netwType>>
    /\ UNCHANGED thr

\* AddTaxiNodeFixed(lat, lon, idx): nodes that were never deduplicated, and
\* gaps without coordinates
CallAddTaxiNodeFixed ==
    /\ \E p \in FixedPts, idx \in 1..MaxNodes :
        apt' = AddTaxiNodeFixed(apt, p[1], p[2], idx)
    /\ ret' = [op |-> "AddTaxiNodeFixed"]
    /\ UNCHANGED <<gmapApt, phase, netwType>>
    /\ UNCHANGED thr

NextNode ==
    \/ CallAddTaxiNode
    \/ CallAddTaxiNodeFixed

SpecNode == InitNode /\ [][NextNode]_vars

\* two AddTaxiNode calls in a row, ret the first and ret' the second
TwoCallsInARow == ret.op = "AddTaxiNode" /\ ret'.op = "AddTaxiNode"

SecondCallChangesNothing ==
    /\ ret'.idx = ret.idx
    /\ apt'.vecTaxiNodes = apt.vecTaxiNodes
    /\ apt'.bounds = apt.bounds

\* C6 as claimed: two calls in a row whose coordinates differ by less than
\* the similar-node distance (same excluded index) return the same index,
\* and the second adds no node and leaves the bounding box alone.
C6_SubThresholdIdempotent ==
    [][(/\ TwoCallsInARow
        /\ ret'.dont = ret.dont
        /\ Abs(ret'.lat - ret.lat) < APT_MAX_SIMILAR_NODE_DIST_M
        /\ Abs(ret'.lon - ret.lon) < APT_MAX_SIMILAR_NODE_DIST_M)
       => SecondCallChangesNothing]_vars

\* C6 (amended): two calls in a row with identical coordinates and the same
\* excluded index return the same index, and the second call adds no node
\* and does not change the bounding box.
C6_IdenticalIdempotent ==
    [][(TwoCallsInARow /\ ret'.again) => SecondCallChangesNothing]_vars

\* the second of two identical calls, the first of which appended a node
\* although an excluded node lies within the threshold
C6_Witness ==
    /\ ret.op = "AddTaxiNode"
    /\ ret.again
    /\ ret.dont # ULONG_MAX
    /\ ret.idx = Len(apt.vecTaxiNodes)
    /\ SimilarTo(apt.vecTaxiNodes[ret.dont], ret.lat, ret.lon)

\* C7: AddTaxiNode(lat, lon, excludeIndex) never returns excludeIndex; what
\* it returns is the index of a node of the store that lies within the
\* threshold of (lat, lon): another existing node or the node just appended.
C7_NeverExcluded ==
    (ret.op = "AddTaxiNode" /\ ret.dont # ULONG_MAX) =>
        /\ ret.idx # ret.dont
        /\ ret.idx \in 1..Len(apt.vecTaxiNodes)
        /\ SimilarTo(apt.vecTaxiNodes[ret.idx], ret.lat, ret.lon)

\* a call whose coordinate is exactly that of the excluded node
C7_Witness ==
    /\ ret.op = "AddTaxiNode"
    /\ ret.dont # ULONG_MAX
    /\ apt.vecTaxiNodes[ret.dont].lat = ret.lat
    /\ apt.vecTaxiNodes[ret.dont].lon = ret.lon
    /\ ret.idx # ret.dont

-----------------------------------------------------------------------------
(* PathFinder: Apt::ShortestPath                                           *)

\* TaxiNode::InitDijkstraAttr
InitDijkstraAttr(n) ==
    [n EXCEPT !.pathLen = HUGE_VAL, !.prevIdx = ULONG_MAX, !.bVisited = FALSE]

\* the start node(s): pathLen 0, marked as start, queued for a visit
SeedNode(st, n) ==
    [nodes |-> [st.nodes EXCEPT ![n].pathLen = 0, ![n].prevIdx = START_NODE],
     visit |-> Append(st.visit, n)]

RECURSIVE SeedAll(_, _)
SeedAll(st, lst) ==
    IF lst = <<>> THEN st ELSE SeedAll(SeedNode(st, Head(lst)), Tail(lst))

\* position in vecVisit of the node with the shortest known distance: the
\* first one that no later one undercuts
RECURSIVE ShortestIter(_, _, _, _)
ShortestIter(nodes, visit, best, i) ==
    IF i > Len(visit) THEN best
    ELSE IF nodes[visit[i]].pathLen < nodes[visit[best]].pathLen
         THEN ShortestIter(nodes, visit, i, i + 1)
         ELSE ShortestIter(nodes, visit, best, i + 1)

RemoveAt(s, i) == SubSeq(s, 1, i - 1) \o SubSeq(s, i + 1, Len(s))

push_back_unique(v, x) == IF x \in SeqToSet(v) THEN v ELSE Append(v, x)

\* the cut-off with ">=" for ">": a path of exactly the maximum length is lost
TooFarOrEqual(lenToUpd, maxLen) == lenToUpd >= maxLen

\* the cut-off left out
TooFarNever(lenToUpd, maxLen) == FALSE

\* "too far out?": a node farther than the maximum length is not updated
TooFar(lenToUpd, maxLen) == lenToUpd > maxLen

\* the inner loop: update the nodes connected to the visited node by its
\* edges k, k+1, ...; stops at once when the end node has been updated
RECURSIVE Relax(_, _, _, _, _, _, _, _)
Relax(st, edges, eList, k, shortestNIdx, shortestDist, endN, maxLen) ==
    IF k > Len(eList) THEN st
    ELSE
    LET e == edges[eList[k]]
        updNIdx == otherNode(e, shortestNIdx)
        updN == st.nodes[updNIdx]
        lenToUpd == shortestDist + e.dist_m
        next(s) == Relax(s, edges, eList, k + 1, shortestNIdx, shortestDist, endN, maxLen)
    IN  IF updN.bVisited THEN next(st)
        ELSE IF TooFar(lenToUpd, maxLen) \/ updN.pathLen <= lenToUpd THEN next(st)
        ELSE
        LET nodes2 == [st.nodes EXCEPT ![updNIdx].pathLen = lenToUpd,
                                       ![updNIdx].prevIdx = shortestNIdx]
        IN  IF updNIdx = endN THEN [nodes |-> nodes2, visit |-> st.visit]
            ELSE next([nodes |-> nodes2, visit |-> push_back_unique(st.visit, updNIdx)])

\* the outer loop: while there is a node to visit and the end is not reached
RECURSIVE VisitLoop(_, _, _, _)
VisitLoop(st, edges, endN, maxLen) ==
    IF st.visit = <<>> \/ st.nodes[endN].prevIdx # ULONG_MAX THEN st
    ELSE
    LET pos == ShortestIter(st.nodes, st.visit, 1, 2)
        shortestNIdx == st.visit[pos]
        shortestDist == st.nodes[shortestNIdx].pathLen
        st1 == [nodes |-> [st.nodes EXCEPT ![shortestNIdx].bVisited = TRUE],
                visit |-> RemoveAt(st.visit, pos)]
    IN  VisitLoop(Relax(st1, edges, st1.nodes[shortestNIdx].vecEdges, 1,
                        shortestNIdx, shortestDist, endN, maxLen),
                  edges, endN, maxLen)

\* the walk back that stops at the end node
PathBackEndOnly(nodes, nIdx) == <<nIdx>>

\* the nodes from nIdx back along prevIdx, up to but without the start node
RECURSIVE PathBack(_, _)
PathBack(nodes, nIdx) ==
    IF nodes[nIdx].prevIdx = START_NODE THEN <<>>
    ELSE <<nIdx>> \o PathBack(nodes, nodes[nIdx].prevIdx)

\* Apt::ShortestPath: [apt, path]; the Dijkstra attributes stay in the nodes
ShortestPath(a, startN, bStartIsRwy, endN, maxLen) ==
    IF ~bStartIsRwy /\ startN = endN THEN [apt |-> a, path |-> <<>>]
    ELSE
    LET init == [nodes |-> [i \in 1..Len(a.vecTaxiNodes) |-> InitDijkstraAttr(a.vecTaxiNodes[i])],
                 visit |-> <<>>]
        seeded == IF bStartIsRwy THEN SeedAll(init, a.vecRwyEndPts[startN].vecTaxiNodes)
                  ELSE SeedNode(init, startN)
        done == VisitLoop(seeded, a.vecTaxiEdges, endN, maxLen)
        a2 == [a EXCEPT !.vecTaxiNodes = done.nodes]
    IN  IF done.nodes[endN].prevIdx = ULONG_MAX THEN [apt |-> a2, path |-> <<>>]
        ELSE [apt |-> a2, path |-> PathBack(done.nodes, endN)]

-----------------------------------------------------------------------------
(* Path searches on a published airport: the airport is built from a       *)
(* runway and centerline nodes and edges, published, and then searched     *)

MaxPathNodes == 4
MaxPathEdges == 4

\* the centerline points in the order the file gives them: <<lat, lon>>
PathPts == << <<0, 0>>, <<0, 3>>, <<3, 0>>, <<6, 0>>, <<6, 3>> >>
\* the runway: from south to north, one metre east of the first points
PathRwy == <<-20, 1, 20, 1>>
\* the maximum path lengths a caller asks for
PathMaxLens == {0, 6, 8, 9}

InitPath ==
    /\ apt = NewApt(TestId)
    /\ gmapApt = NoApts
    /\ phase = "build"
    /\ netwType = NETW_UNKOWN
    /\ ret = NoCall
    /\ thr = NoThreads

PathAddRwy ==
    /\ phase = "build"
    /\ ~HasRwyEndpoints(apt)
    /\ apt' = AddRwyEnds(apt, PathRwy[1], PathRwy[2], 0, "18", PathRwy[3], PathRwy[4], 0, "36")
    /\ ret' = [op |-> "AddRwyEnds"]
    /\ UNCHANGED <<gmapApt, phase, netwType>>
    /\ UNCHANGED thr

PathAddNode ==
    /\ phase = "build"
    /\ HasRwyEndpoints(apt)
    /\ Len(apt.vecTaxiNodes) < MaxPathNodes
    /\ Len(apt.vecTaxiNodes) < Len(PathPts)
    /\ NumTaxiEdges(apt) = 0
    /\ LET p == PathPts[Len(apt.vecTaxiNodes) + 1]
       IN  apt' = AddTaxiNode(apt, p[1], p[2], ULONG_MAX).apt
    /\ netwType' = NETW_CENTERLINES
    /\ ret' = [op |-> "AddTaxiNode"]
    /\ UNCHANGED <<gmapApt, phase>>
    /\ UNCHANGED thr

PathAddEdge ==
    /\ phase = "build"
    /\ NumTaxiEdges(apt) < MaxPathEdges
    /\ \E n1 \in 1..Len(apt.vecTaxiNodes), n2 \in 1..Len(apt.vecTaxiNodes) :
        /\ n1 < n2
        \* the file lists the edges ordered by their nodes, none twice
        /\ \A i \in 1..Len(apt.vecTaxiEdges) :
              apt.vecTaxiEdges[i].type = TAXI_WAY =>
                LET m1 == Min(apt.vecTaxiEdges[i].a, apt.vecTaxiEdges[i].b)
                    m2 == Max(apt.vecTaxiEdges[i].a, apt.vecTaxiEdges[i].b)
                IN  m1 < n1 \/ (m1 = n1 /\ m2 < n2)
        /\ apt' = AddTaxiEdge(apt, n1, n2).apt
    /\ ret' = [op |-> "AddTaxiEdge"]
    /\ UNCHANGED <<gmapApt, phase, netwType>>
    /\ UNCHANGED thr

PathPublish ==
    /\ phase = "build"
    /\ IsValid(apt)
    /\ gmapApt' = AddApt(gmapApt, apt)
    /\ apt' = NewApt("")
    /\ phase' = "published"
    /\ ret' = [op |-> "AddApt"]
    /\ UNCHANGED netwType
    /\ UNCHANGED thr

\* ShortestPath(_startN, bStartIsRwy, _endN, _maxLen) as SnapToTaxiway calls
\* it: the start is a taxi node or a runway endpoint, the end a taxi node
\* the published airport
Reg == gmapApt[TestId]

CallShortestPath ==
    /\ phase = "published"
    /\ \E bStartIsRwy \in BOOLEAN, endN \in 1..Len(Reg.vecTaxiNodes), maxLen \in PathMaxLens :
        \E startN \in IF bStartIsRwy THEN 1..Len(Reg.vecRwyEndPts)
                      ELSE 1..Len(Reg.vecTaxiNodes) :
            LET r == ShortestPath(Reg, startN, bStartIsRwy, endN, maxLen)
            IN  /\ gmapApt' = [gmapApt EXCEPT ![TestId] = r.apt]
                /\ ret' = [op |-> "ShortestPath", startN |-> startN,
                           bStartIsRwy |-> bStartIsRwy, endN |-> endN,
                           maxLen |-> maxLen, path |-> r.path]
    /\ UNCHANGED <<apt, phase, netwType>>
    /\ UNCHANGED thr

NextPath ==
    \/ PathAddRwy
    \/ PathAddNode
    \/ PathAddEdge
    \/ PathPublish
    \/ CallShortestPath

SpecPath == InitPath /\ [][NextPath]_vars

\* the start nodes of the last search
StartNodes ==
    IF ret.bStartIsRwy THEN SeqToSet(Reg.vecRwyEndPts[ret.startN].vecTaxiNodes)
    ELSE {ret.startN}

TaxiEdgeIdxs == {i \in 1..Len(Reg.vecTaxiEdges) : Reg.vecTaxiEdges[i].type = TAXI_WAY}

\* length of the shortest taxiway edge joining nodes m and n; HUGE_VAL if none
EdgeLen(m, n) ==
    LET js == {i \in TaxiEdgeIdxs :
                 \/ Reg.vecTaxiEdges[i].a = m /\ Reg.vecTaxiEdges[i].b = n
                 \/ Reg.vecTaxiEdges[i].a = n /\ Reg.vecTaxiEdges[i].b = m}
    IN  IF js = {} THEN HUGE_VAL
        ELSE LET j == CHOOSE j \in js : \A k \in js :
                        Reg.vecTaxiEdges[j].dist_m <= Reg.vecTaxiEdges[k].dist_m
             IN  Reg.vecTaxiEdges[j].dist_m

\* the true distances in the taxi graph from the start nodes, by k rounds of
\* relaxation over all edges (independent of the search's own bookkeeping)
RECURSIVE TrueDist(_, _)
TrueDist(d, k) ==
    IF k = 0 THEN d
    ELSE TrueDist([n \in DOMAIN d |->
                     LET via == {d[m] + EdgeLen(m, n) : m \in DOMAIN d} \cup {d[n]}
                     IN  CHOOSE x \in via : \A y \in via : x <= y],
                  k - 1)

DistFromStart ==
    TrueDist([n \in 1..Len(Reg.vecTaxiNodes) |-> IF n \in StartNodes THEN 0 ELSE HUGE_VAL],
             Len(Reg.vecTaxiNodes))

\* the node the returned path was reconstructed back to: the path itself
\* stops one node short of it
PathStart == Reg.vecTaxiNodes[ret.path[Len(ret.path)]].prevIdx

\* the sum of the edge lengths along the node list p
RECURSIVE SumEdges(_)
SumEdges(p) ==
    IF Len(p) < 2 THEN 0 ELSE EdgeLen(p[1], p[2]) + SumEdges(Tail(p))

\* the length of the path the search returned, from the start node to the destination
WalkLen == SumEdges(ret.path \o <<PathStart>>)

Found == ret.op = "ShortestPath" /\ ret.path # <<>>

\* C2: whenever ShortestPath returns a non-empty path, the edges from the
\* start node along the path to the destination sum up to at most maxLen.
C2_PathWithinMaxLen ==
    Found => /\ ret.path[1] = ret.endN
             /\ PathStart \in StartNodes
             /\ WalkLen <= ret.maxLen

\* a found path over two edges whose length is exactly the maximum
C2_Witness ==
    /\ Found
    /\ Len(ret.path) = 2
    /\ WalkLen = ret.maxLen

\* C3: a non-empty path returned by ShortestPath is a shortest one: its
\* length is the minimum over all paths from a start node to the destination.
C3_PathIsShortest ==
    Found => WalkLen = DistFromStart[ret.endN]

\* C4: a non-empty result lists the nodes from the destination back to the
\* start: its first element is the destination, its last a start node.
C4_PathIncludesStart ==
    Found => /\ ret.path[1] = ret.endN
             /\ ret.path[Len(ret.path)] \in StartNodes

\* C5: for a destination that is not a start node, the result is empty
\* exactly if no path from a start node to the destination is within maxLen.
C5_EmptyIffNoPath ==
    (ret.op = "ShortestPath" /\ ret.endN \notin StartNodes) =>
        (ret.path = <<>> <=> DistFromStart[ret.endN] > ret.maxLen)

\* a search from a runway endpoint that found nothing although the
\* destination is connected to a start node, only too far away
C5_Witness ==
    /\ ret.op = "ShortestPath"
    /\ ret.bStartIsRwy
    /\ StartNodes # {}
    /\ ret.endN \notin StartNodes
    /\ ret.path = <<>>
    /\ DistFromStart[ret.endN] < HUGE_VAL

-----------------------------------------------------------------------------
(* Heading searches on the heading index of a published airport            *)

\* the headings and tolerances searched for, and the type restrictions
HeadSearches == {0, 5, 90, 150, 175, 180, 185, 264, 355}
AngleTolerances == {0, 10, 30, 90}
RestrictTypes == {UNKNOWN_WAY, RUN_WAY, TAXI_WAY}

CallFindEdgesForHeading ==
    /\ phase = "published"
    /\ \E headSearch \in HeadSearches, angleTolerance \in AngleTolerances,
          restrictType \in RestrictTypes :
        ret' = [op |-> "FindEdgesForHeading", headSearch |-> headSearch,
                angleTolerance |-> angleTolerance, restrictType |-> restrictType,
                lst |-> FindEdgesForHeading(Reg, headSearch, angleTolerance, restrictType)]
    /\ UNCHANGED <<apt, gmapApt, phase, netwType>>
    /\ UNCHANGED thr

NextHead ==
    \/ PathAddRwy
    \/ PathAddNode
    \/ PathAddEdge
    \/ PathPublish
    \/ CallFindEdgesForHeading

SpecHead == InitPath /\ [][NextHead]_vars

\* the edges of the type asked for in the last heading search
EdgesOfType ==
    {i \in 1..Len(Reg.vecTaxiEdges) :
        ret.restrictType = UNKNOWN_WAY \/ Reg.vecTaxiEdges[i].type = ret.restrictType}

\* the edges of the type asked for with lo <= angle <= hi
SubRange(lo, hi) ==
    {i \in EdgesOfType : lo <= Reg.vecTaxiEdges[i].angle /\ Reg.vecTaxiEdges[i].angle <= hi}

\* the search heading folded into [0,180)
HeadFolded == ret.headSearch % 180

\* distance of two directions of lines, which repeat every 180 degrees
LineAngleDiff(a, h) == Min(Abs(a - h), 180 - Abs(a - h))

\* C8: FindEdgesForHeading returns exactly the edges of the requested type
\* whose angle is within the tolerance of the search heading folded into
\* [0,180), measured around the 180 degree circle; for a window that spills
\* below 0 or to 180 and above that is the union of the two sub-ranges.
C8_HeadingMatches ==
    ret.op = "FindEdgesForHeading" =>
        LET lo == HeadFolded - ret.angleTolerance
            hi == HeadFolded + ret.angleTolerance
            res == SeqToSet(ret.lst)
        IN  /\ res = {i \in EdgesOfType :
                        LineAngleDiff(Reg.vecTaxiEdges[i].angle, HeadFolded) <= ret.angleTolerance}
            /\ lo < 0 => res = SubRange(0, hi) \cup SubRange(lo + 180, 179)
            /\ hi >= 180 => res = SubRange(lo, 179) \cup SubRange(0, hi - 180)
            /\ ret.angleTolerance < 90 => Len(ret.lst) = Cardinality(res)

\* a search heading of 180 or more whose window spills below 0, with matches
\* in the lower and in the upper sub-range
C8_Witness ==
    /\ ret.op = "FindEdgesForHeading"
    /\ ret.headSearch >= 180
    /\ HeadFolded - ret.angleTolerance < 0
    /\ ret.angleTolerance < 90
    /\ \E i, j \in SeqToSet(ret.lst) :
        /\ Reg.vecTaxiEdges[i].angle <= HeadFolded + ret.angleTolerance
        /\ Reg.vecTaxiEdges[j].angle >= HeadFolded - ret.angleTolerance + 180
        /\ Reg.vecTaxiEdges[j].type = TAXI_WAY

-----------------------------------------------------------------------------
(* Apt::SnapToTaxiway: snapping a position to the closest edge and         *)
(* inserting the path of taxi nodes that leads there                       *)

\* positionTy::edgeIdx: not yet searched / searched and nothing found
EDGE_UNKNOWN == 0
EDGE_UNAVAIL == -1
HasTaxiEdge(pos) == pos.edgeIdx # EDGE_UNKNOWN /\ pos.edgeIdx # EDGE_UNAVAIL

\* [deg] first and second priority heading tolerance when snapping
ART_EDGE_ANGLE_TOLERANCE == 30
ART_EDGE_ANGLE_TOLERANCE_EXT == 80
\* [m/s] the flight model's maximum taxi speed
MAX_TAXI_SPEED == 4
\* [s] time stamps closer than this are similar
SIMILAR_TS_INTVL == 3

FPH_UNKNOWN == "FPH_UNKNOWN"
FPH_TAXI == "FPH_TAXI"

\* a position as they come in: no edge looked up yet
positionTy(lat, lon, heading, ts) ==
    [lat |-> lat, lon |-> lon, heading |-> heading, ts |-> ts,
     edgeIdx |-> EDGE_UNKNOWN, flightPhase |-> FPH_UNKNOWN]

NoPrevPos == [has |-> FALSE]

\* the positions inserted for the nodes of vecPath, which is in reverse
\* order: the node i of the path and those before it
RECURSIVE InsertedPositions(_, _, _, _, _, _)
InsertedPositions(nodes, vecPath, i, startTS, pathTime, pathLen) ==
    IF i = 0 THEN <<>>
    ELSE LET n == nodes[vecPath[i]]
         IN  << [lat |-> n.lat, lon |-> n.lon, heading |-> NaN,
                 ts |-> IF pathLen = 0 THEN NaN
                        ELSE startTS + (pathTime * n.pathLen) \div pathLen,
                 edgeIdx |-> EDGE_UNAVAIL, flightPhase |-> FPH_TAXI] >>
             \o InsertedPositions(nodes, vecPath, i - 1, startTS, pathTime, pathLen)

\* the second half of SnapToTaxiway if a path of a single node were enough
\* to insert positions
SnapInsertPathOneNode(a, pos, prevPos, eIdx) ==
    LET prevE == a.vecTaxiEdges[prevPos.edgeIdx]
        prevErelN == IF prevE.type = RUN_WAY THEN startByHeading(prevE, prevPos.heading)
                     ELSE endByHeading(prevE, prevPos.heading)
        currEstartN == startByHeading(a.vecTaxiEdges[eIdx], pos.heading)
        r == ShortestPath(a, prevErelN, prevE.type = RUN_WAY, currEstartN,
                          ((pos.ts - prevPos.ts) * MAX_TAXI_SPEED * 3) \div 2)
    IN  [ok |-> TRUE, apt |-> r.apt, pos |-> pos,
         inserted |-> InsertedPositions(r.apt.vecTaxiNodes, r.path, Len(r.path),
                                        prevPos.ts, pos.ts - prevPos.ts, 1)]

\* the second half of SnapToTaxiway: the shortest path from the previous
\* position's edge to the edge found, as positions to insert before pos
SnapInsertPath(a, pos, prevPos, eIdx) ==
    LET prevE == a.vecTaxiEdges[prevPos.edgeIdx]
        prevErelN == IF prevE.type = RUN_WAY THEN startByHeading(prevE, prevPos.heading)
                     ELSE endByHeading(prevE, prevPos.heading)
        currEstartN == startByHeading(a.vecTaxiEdges[eIdx], pos.heading)
        dt == pos.ts - prevPos.ts
        maxLen == (dt * MAX_TAXI_SPEED * 3) \div 2
        r == ShortestPath(a, prevErelN, prevE.type = RUN_WAY, currEstartN, maxLen)
        vecPath == r.path
        nodes == r.apt.vecTaxiNodes
    IN  IF Len(vecPath) < 2 THEN [ok |-> TRUE, apt |-> r.apt, pos |-> pos, inserted |-> <<>>]
        ELSE
        LET nEnd == nodes[vecPath[1]]
            pathLen == nodes[currEstartN].pathLen
                        + DistLatLon(nEnd.lat, nEnd.lon, pos.lat, pos.lon)
            nStart == nodes[vecPath[Len(vecPath)]]
            prevToStartDist == DistLatLon(prevPos.lat, prevPos.lon, nStart.lat, nStart.lon)
            startTS == IF prevE.type = RUN_WAY
                       THEN Max(pos.ts - pathLen \div MAX_TAXI_SPEED,
                                prevPos.ts + SIMILAR_TS_INTVL)
                       ELSE prevPos.ts + (prevToStartDist * dt) \div (prevToStartDist + pathLen)
        IN  [ok |-> TRUE, apt |-> r.apt, pos |-> pos,
             inserted |-> InsertedPositions(nodes, vecPath, Len(vecPath), startTS,
                                            pos.ts - startTS, pathLen)]

\* Apt::SnapToTaxiway for a position and the position before it (the
\* predecessor in the deque, or the aircraft's to-position), if any:
\* [ok, apt, pos, inserted]
SnapToTaxiway(a, pos, prevPos) ==
    LET f == FindClosestEdge(a, pos.lat, pos.lon, pos.heading, FdSnapTaxiDist_m,
                             ART_EDGE_ANGLE_TOLERANCE, ART_EDGE_ANGLE_TOLERANCE_EXT,
                             ULONG_MAX)
    IN  IF ~f.found
        THEN [ok |-> FALSE, apt |-> a, pos |-> [pos EXCEPT !.edgeIdx = EDGE_UNAVAIL],
              inserted |-> <<>>]
        ELSE
        LET moved == [pos EXCEPT !.lat = f.base.lat, !.lon = f.base.lon,
                                 !.edgeIdx = f.eIdx]
            taxi == [moved EXCEPT !.flightPhase = FPH_TAXI]
        IN  IF a.vecTaxiEdges[f.eIdx].type = RUN_WAY
            THEN [ok |-> TRUE, apt |-> a, pos |-> moved, inserted |-> <<>>]
            ELSE IF ~prevPos.has \/ ~HasTaxiEdge(prevPos) \/ f.eIdx = prevPos.edgeIdx
            THEN [ok |-> TRUE, apt |-> a, pos |-> taxi, inserted |-> <<>>]
            ELSE SnapInsertPath(a, taxi, prevPos, f.eIdx)

-----------------------------------------------------------------------------
(* Snapping positions to a published airport                               *)

\* the reported positions: <<lat, lon>>
SnapPts ==
    {<<0, 1>>, <<0, 2>>, <<1, 0>>, <<2, 0>>, <<4, 0>>, <<1, 2>>, <<2, 1>>,
     <<4, 1>>, <<4, 2>>, <<6, 1>>, <<5, 1>>, <<10, 1>>}
\* how far the reported heading is off an edge's direction
SnapHeadOffsets == {0, 10}
\* [s] the time between the previous position and the reported one
SnapTimes == {3}

\* the previous position: on an edge, at its first node, heading along it
PrevPositions ==
    {NoPrevPos} \cup
    {[has |-> TRUE, lat |-> GetA(Reg, Reg.vecTaxiEdges[i]).lat,
      lon |-> GetA(Reg, Reg.vecTaxiEdges[i]).lon,
      heading |-> Reg.vecTaxiEdges[i].angle, ts |-> 0, edgeIdx |-> i] :
        i \in 1..Len(Reg.vecTaxiEdges)}

\* the number of positions reported
MaxSnaps == 1
SnapsDone == IF ret.op = "SnapToTaxiway" THEN ret.n ELSE 0

\* LTAptSnap -> Apt::SnapToTaxiway for a reported position
CallSnapToTaxiway ==
    /\ phase = "published"
    /\ SnapsDone < MaxSnaps
    /\ \E p \in SnapPts, i \in 1..Len(Reg.vecTaxiEdges), flip \in {0, 180},
          off \in SnapHeadOffsets, ts \in SnapTimes, prevPos \in PrevPositions :
        \E pos \in {positionTy(p[1], p[2],
                                (Reg.vecTaxiEdges[i].angle + flip + off) % 360, ts)} :
        \E r \in {SnapToTaxiway(Reg, pos, prevPos)} :
            /\ gmapApt' = [gmapApt EXCEPT ![TestId] = r.apt]
            /\ ret' = [op |-> "SnapToTaxiway", n |-> SnapsDone + 1,
                       again |-> FALSE, orig |-> pos, pos |-> pos,
                       prevPos |-> prevPos, ok |-> r.ok, newPos |-> r.pos,
                       inserted |-> r.inserted]
    /\ UNCHANGED <<apt, phase, netwType>>
    /\ UNCHANGED thr

\* the position just snapped is snapped once more
CallSnapAgain ==
    /\ phase = "published"
    /\ ret.op = "SnapToTaxiway"
    /\ ~ret.again
    /\ ret.ok
    /\ \E r \in {SnapToTaxiway(Reg, ret.newPos, ret.prevPos)} :
           /\ gmapApt' = [gmapApt EXCEPT ![TestId] = r.apt]
           /\ ret' = [op |-> "SnapToTaxiway", n |-> ret.n,
                      again |-> TRUE, orig |-> ret.orig, pos |-> ret.newPos,
                      prevPos |-> ret.prevPos, ok |-> r.ok, newPos |-> r.pos,
                      inserted |-> r.inserted]
    /\ UNCHANGED <<apt, phase, netwType>>
    /\ UNCHANGED thr

NextSnap ==
    \/ PathAddRwy
    \/ PathAddNode
    \/ PathAddEdge
    \/ PathPublish
    \/ CallSnapToTaxiway
    \/ CallSnapAgain

SpecSnap == InitPath /\ [][NextSnap]_vars

\* the position p lies on the line through the edge i / on the edge itself
OnLineOf(p, i) ==
    LET na == GetA(Reg, Reg.vecTaxiEdges[i])
        nb == GetB(Reg, Reg.vecTaxiEdges[i])
    IN  (p.lon - na.lon) * (nb.lat - na.lat) = (p.lat - na.lat) * (nb.lon - na.lon)
OnEdge(p, i) ==
    LET na == GetA(Reg, Reg.vecTaxiEdges[i])
        nb == GetB(Reg, Reg.vecTaxiEdges[i])
    IN  /\ OnLineOf(p, i)
        /\ Min(na.lat, nb.lat) <= p.lat /\ p.lat <= Max(na.lat, nb.lat)
        /\ Min(na.lon, nb.lon) <= p.lon /\ p.lon <= Max(na.lon, nb.lon)
\* the heading of p is the direction of the edge i, one way or the other
AlignedTo(p, i) == p.heading % 180 = Reg.vecTaxiEdges[i].angle
\* the taxiway edges the position snapped last lies on, heading along them
EdgesUnderPos ==
    {i \in 1..Len(Reg.vecTaxiEdges) :
        /\ Reg.vecTaxiEdges[i].type = TAXI_WAY
        /\ OnEdge(ret.pos, i)
        /\ AlignedTo(ret.pos, i)}
\* the other edges that run through the position at zero distance, within
\* the first priority heading tolerance
RivalEdges(i) ==
    {j \in 1..Len(Reg.vecTaxiEdges) :
        /\ j # i
        /\ OnLineOf(ret.pos, j)
        /\ LineAngleDiff(Reg.vecTaxiEdges[j].angle, ret.pos.heading % 180)
              <= ART_EDGE_ANGLE_TOLERANCE}
SamePlace(p, q) == p.lat = q.lat /\ p.lon = q.lon

\* C13 (as stated): a position exactly on a taxiway edge, heading along it,
\* snaps to that edge with the base point equal to the position, and
\* snapping the snapped position again changes neither its coordinates nor
\* its edge.
C13_SnapsToThatEdge ==
    ret.op = "SnapToTaxiway" =>
        \A i \in EdgesUnderPos :
            /\ ret.ok
            /\ ret.newPos.edgeIdx = i
            /\ SamePlace(ret.newPos, ret.pos)

\* C13 (amended): a position exactly on a taxiway edge, heading along it,
\* snaps to an edge whose line runs through the position, which is that
\* edge unless a rival edge runs through the position as well; the base
\* point equals the position if that lies on the edge found; and snapping
\* the snapped position again changes neither its coordinates nor its edge.
C13_SnapsOntoLine ==
    ret.op = "SnapToTaxiway" =>
        \A i \in EdgesUnderPos :
            /\ ret.ok
            /\ OnLineOf(ret.pos, ret.newPos.edgeIdx)
            /\ RivalEdges(i) = {} => ret.newPos.edgeIdx = i
            /\ OnEdge(ret.pos, ret.newPos.edgeIdx) => SamePlace(ret.newPos, ret.pos)
            /\ (ret.again /\ SamePlace(ret.orig, ret.pos)) =>
                    ret.newPos.edgeIdx = ret.pos.edgeIdx

\* a position on an edge's inside was snapped to that edge and then again
C13_Witness ==
    /\ ret.op = "SnapToTaxiway"
    /\ ret.again
    /\ SamePlace(ret.orig, ret.pos)
    /\ \E i \in EdgesUnderPos :
        /\ RivalEdges(i) = {}
        /\ ret.newPos.edgeIdx = i
        /\ ret.pos.edgeIdx = i
        /\ ~SamePlace(ret.pos, GetA(Reg, Reg.vecTaxiEdges[i]))
        /\ ~SamePlace(ret.pos, GetB(Reg, Reg.vecTaxiEdges[i]))

-----------------------------------------------------------------------------
(* The apt.dat parser: ReadOneAptFile reads a file line by line.  A line   *)
(* is a record of what the parser looks at: its row code and its fields.   *)
(* A 120 record stands for the "120" line and the centerline node lines    *)
(* (111-116) that follow it, which ReadOneTaxiLine consumes.               *)

\* [m2] a centerline edge is not made longer than this, squared
APT_MAX_EDGE_LEN_M2 == 100
\* [deg] a centerline edge ends where the line turns by more than this
APT_MAX_TAXI_SEGM_TURN == 15

\* the nodes of a section without those equal to the one before them
RECURSIVE CollectNodes(_)
CollectNodes(recs) ==
    IF recs = <<>> THEN <<>>
    ELSE LET front == CollectNodes(SubSeq(recs, 1, Len(recs) - 1))
             r == recs[Len(recs)]
         IN  IF front = <<>> \/ front[Len(front)] # r THEN Append(front, r) ELSE front

\* the loop of ReadOneTaxiLine that thins out the nodes between the first
\* and the last: st = [apt, idxA, firstAngle]
RECURSIVE ThinNodes(_, _, _)
ThinNodes(st, vecNodes, iEnd) ==
    IF iEnd >= Len(vecNodes) THEN st
    ELSE LET a == st.apt.vecTaxiNodes[st.idxA]
             b == vecNodes[iEnd]
             c == vecNodes[iEnd + 1]
             bcAngle == CoordAngle(b[1], b[2], c[1], c[2])
         IN  IF st.firstAngle = NaN
             THEN ThinNodes([st EXCEPT !.firstAngle = bcAngle], vecNodes, iEnd + 1)
             ELSE IF \/ DistLatLonSqr(a.lat, a.lon, c[1], c[2]) > APT_MAX_EDGE_LEN_M2
                     \/ Abs(HeadingDiff(st.firstAngle, bcAngle)) > APT_MAX_TAXI_SEGM_TURN
             THEN LET rB == AddTaxiNode(st.apt, b[1], b[2], ULONG_MAX)
                  IN  IF st.idxA # rB.idx
                      THEN ThinNodes([apt |-> AddTaxiEdge(rB.apt, st.idxA, rB.idx).apt,
                                      idxA |-> rB.idx, firstAngle |-> NaN],
                                     vecNodes, iEnd + 1)
                      ELSE ThinNodes([st EXCEPT !.apt = rB.apt], vecNodes, iEnd + 1)
             ELSE ThinNodes(st, vecNodes, iEnd + 1)

\* ReadOneTaxiLine in which the last node may be combined with the first
ReadOneTaxiLineCombineFirst(a, recs) ==
    LET vecNodes == CollectNodes(recs)
    IN  IF Len(vecNodes) < 2 THEN a
        ELSE LET rA == AddTaxiNode(a, vecNodes[1][1], vecNodes[1][2], ULONG_MAX)
                 st == ThinNodes([apt |-> rA.apt, idxA |-> rA.idx, firstAngle |-> NaN],
                                 vecNodes, 1)
                 last == vecNodes[Len(vecNodes)]
                 rB == AddTaxiNode(st.apt, last[1], last[2], ULONG_MAX)
             IN  IF st.idxA # rB.idx THEN AddTaxiEdge(rB.apt, st.idxA, rB.idx).apt
                 ELSE rB.apt

\* ReadOneTaxiLine: the airport after the section with node records recs
ReadOneTaxiLine(a, recs) ==
    LET vecNodes == CollectNodes(recs)
    IN  IF Len(vecNodes) < 2 THEN a
        ELSE LET rA == AddTaxiNode(a, vecNodes[1][1], vecNodes[1][2], ULONG_MAX)
                 idxA_First == rA.idx
                 st == ThinNodes([apt |-> rA.apt, idxA |-> rA.idx, firstAngle |-> NaN],
                                 vecNodes, 1)
                 last == vecNodes[Len(vecNodes)]
                 rB == AddTaxiNode(st.apt, last[1], last[2], idxA_First)
             IN  IF st.idxA # rB.idx THEN AddTaxiEdge(rB.apt, st.idxA, rB.idx).apt
                 ELSE rB.apt

\* an Apt object after it was moved into the map: its vectors are empty, its
\* bounds are those AddApt enlarged, its id is whatever the library left
MovedFrom(a, id) ==
    [NewApt(id) EXCEPT !.bounds = enlarge_m(a.bounds, FdSnapTaxiDist_m), !.alt_m = a.alt_m]

\* the number of lines read from one file
MaxLines == 3

\* the search box handed to ReadOneAptFile
ParseBox == [set |-> TRUE, s |-> -5, n |-> 5, w |-> -5, e |-> 15]

\* the lines a file is made of
HeaderLines ==
    {[code |-> 1, id |-> "TEST", nFields |-> 5],
     [code |-> 1, id |-> "TEST", nFields |-> 4],
     [code |-> 1, id |-> "KXYZ", nFields |-> 5]}
RwyLines ==
    {[code |-> 100, nFields |-> 26, lat1 |-> 0, lon1 |-> 0, lat2 |-> 0, lon2 |-> 10],
     [code |-> 100, nFields |-> 26, lat1 |-> 50, lon1 |-> 0, lat2 |-> 50, lon2 |-> 10],
     [code |-> 100, nFields |-> 25, lat1 |-> 0, lon1 |-> 0, lat2 |-> 0, lon2 |-> 10]}
SectionNodes ==
    { << <<1, 2>> >>,
      << <<1, 2>>, <<1, 6>> >>,
      << <<1, 2>>, <<1, 2>> >>,
      << <<1, 2>>, <<1, 3>> >>,
      << <<1, 6>>, <<1, 2>> >>,
      << <<1, 2>>, <<1, 6>>, <<5, 6>> >>,
      << <<1, 2>>, <<1, 2>>, <<1, 6>> >>,
      << <<1, 2>>, <<1, 4>>, <<1, 6>> >> }
SectionLines == {[code |-> 120, nodes |-> n] : n \in SectionNodes}
RouteNodeLines ==
    {[code |-> 1201, lat |-> p[1], lon |-> p[2], idx |-> i] :
        p \in {<<1, 2>>, <<1, 6>>}, i \in 1..2}
RouteEdgeLines == {[code |-> 1202, n1 |-> 1, n2 |-> 2], [code |-> 1202, n1 |-> 1, n2 |-> 3]}
OtherLines == {[code |-> 0]}

\* a field whose text is not a number
Garbled == -888888
\* std::stod, std::stoul on a field: std::invalid_argument if it holds no number
stod_throws(f) == f = Garbled

\* records with a field that holds no number where one is expected
GarbledRwyLines ==
    {[code |-> 100, nFields |-> 26, lat1 |-> Garbled, lon1 |-> 0, lat2 |-> 0, lon2 |-> 10]}
GarbledSectionLines == {[code |-> 120, nodes |-> << <<1, 2>>, <<Garbled, 6>> >>]}
GarbledRouteNodeLines == {[code |-> 1201, lat |-> Garbled, lon |-> 2, idx |-> 1]}
GarbledRouteEdgeLines == {[code |-> 1202, n1 |-> Garbled, n2 |-> 2]}
GarbledLines ==
    GarbledRwyLines \cup GarbledSectionLines \cup GarbledRouteNodeLines
        \cup GarbledRouteEdgeLines

InitParse ==
    /\ apt = NewApt("")
    /\ gmapApt = NoApts
    /\ phase = "reading"
    /\ netwType = NETW_UNKOWN
    /\ ret = [op |-> "ReadOneAptFile", file |-> "any", lines |-> <<>>]
    /\ thr = NoThreads

\* the number of lines read from a file with two airports
MaxFormatLines == 6

\* the lines a file with two airports is made of: the headers, a runway in
\* the search box, a centerline section, a node of a taxi route network
TwoAirportLines ==
    {[code |-> 1, id |-> "TEST", nFields |-> 5],
     [code |-> 1, id |-> "KXYZ", nFields |-> 5],
     [code |-> 100, nFields |-> 26, lat1 |-> 0, lon1 |-> 0, lat2 |-> 0, lon2 |-> 10],
     [code |-> 120, nodes |-> << <<1, 2>>, <<1, 6>> >>],
     [code |-> 1201, lat |-> 1, lon |-> 2, idx |-> 1]}

\* the number of lines read from a file with malformed lines
MaxMalformedLines == 4

\* the lines a file with malformed lines is made of: the headers, a runway
\* in the search box, a runway line that is too short, a node of a taxi
\* route network, and the records with a field that holds no number
MalformedFileLines ==
    {[code |-> 1, id |-> "TEST", nFields |-> 5],
     [code |-> 1, id |-> "KXYZ", nFields |-> 5],
     [code |-> 100, nFields |-> 26, lat1 |-> 0, lon1 |-> 0, lat2 |-> 0, lon2 |-> 10],
     [code |-> 100, nFields |-> 25, lat1 |-> 0, lon1 |-> 0, lat2 |-> 0, lon2 |-> 10],
     [code |-> 120, nodes |-> << <<1, 2>> >>],
     [code |-> 1201, lat |-> 1, lon |-> 2, idx |-> 1]} \cup GarbledLines

\* the lines of a set that the file being read can hold
Offered(S) ==
    IF ret.file = "any" THEN S \ GarbledLines
    ELSE IF ret.file = "two airports" THEN S \cap TwoAirportLines
    ELSE S \cap MalformedFileLines

MoreLines ==
    /\ phase = "reading"
    /\ Len(ret.lines) < (IF ret.file = "any" THEN MaxLines
                         ELSE IF ret.file = "two airports" THEN MaxFormatLines
                         ELSE MaxMalformedLines)
LineRead(ln) == ret' = [ret EXCEPT !.lines = Append(@, ln)]

\* a line "1 ...": the airport before it is added if valid, and a new
\* airport begins if the line has an id that is not in the map
ReadAptHeader ==
    /\ MoreLines
    /\ \E ln \in Offered(HeaderLines) :
        /\ LineRead(ln)
        /\ gmapApt' = IF IsValid(apt) THEN AddApt(gmapApt, apt) ELSE gmapApt
        /\ IF ln.nFields >= 5 /\ ln.id \notin DOMAIN gmapApt'
           THEN apt' = NewApt(ln.id)
           ELSE IF IsValid(apt)
           THEN \E id \in {"", apt.id} : apt' = MovedFrom(apt, id)
           ELSE apt' = NewApt("")
    /\ UNCHANGED <<phase, netwType>>
    /\ UNCHANGED thr

\* the test of a runway record that looks at the search box only
RwyOfInterestBoxOnly(a, box, lat, lon) == contains(box, lat, lon)

\* the test of a runway record: the airport was accepted already, or the
\* first end of the runway lies in the search box
RwyOfInterest(a, box, lat, lon) == HasTaxiWays(a) \/ contains(box, lat, lon)

\* a line "100 ...": a runway
ReadRwyLine ==
    /\ MoreLines
    /\ \E ln \in Offered(RwyLines \cup GarbledRwyLines) :
        /\ LineRead(ln)
        /\ IF HasId(apt) /\ ln.nFields = 26
           THEN IF stod_throws(ln.lat1) \/ stod_throws(ln.lon1)
                THEN apt' = apt /\ phase' = "threw"
                ELSE IF RwyOfInterest(apt, ParseBox, ln.lat1, ln.lon1)
                THEN IF stod_throws(ln.lat2) \/ stod_throws(ln.lon2)
                     THEN apt' = apt /\ phase' = "threw"
                     ELSE /\ apt' = AddRwyEnds(apt, ln.lat1, ln.lon1, 0, "A",
                                               ln.lat2, ln.lon2, 0, "B")
                          /\ phase' = phase
                ELSE apt' = NewApt("") /\ phase' = phase
           ELSE apt' = apt /\ phase' = phase
    /\ UNCHANGED <<gmapApt, netwType>>
    /\ UNCHANGED thr

\* a line "120" and the node lines after it
ReadTaxiLineSection ==
    /\ MoreLines
    /\ \E ln \in Offered(SectionLines \cup GarbledSectionLines) :
        /\ LineRead(ln)
        /\ IF HasRwyEndpoints(apt) /\ netwType # NETW_TAXIROUTES
           THEN IF \E i \in 1..Len(ln.nodes) :
                      stod_throws(ln.nodes[i][1]) \/ stod_throws(ln.nodes[i][2])
                THEN /\ phase' = "threw"
                     /\ UNCHANGED <<apt, netwType>>
                ELSE /\ apt' = ReadOneTaxiLine(apt, ln.nodes)
                     /\ netwType' = IF HasTaxiWays(apt') THEN NETW_CENTERLINES
                                    ELSE netwType
                     /\ phase' = phase
           ELSE UNCHANGED <<apt, netwType, phase>>
    /\ UNCHANGED gmapApt
    /\ UNCHANGED thr

\* a line "1201 ...": a node of the taxi route network
ReadRouteNode ==
    /\ MoreLines
    /\ \E ln \in Offered(RouteNodeLines \cup GarbledRouteNodeLines) :
        /\ LineRead(ln)
        /\ IF HasRwyEndpoints(apt) /\ netwType # NETW_CENTERLINES
           THEN IF stod_throws(ln.lat) \/ stod_throws(ln.lon) \/ stod_throws(ln.idx)
                THEN /\ phase' = "threw"
                     /\ UNCHANGED <<apt, netwType>>
                ELSE /\ apt' = AddTaxiNodeFixed(apt, ln.lat, ln.lon, ln.idx)
                     /\ netwType' = NETW_TAXIROUTES
                     /\ phase' = phase
           ELSE UNCHANGED <<apt, netwType, phase>>
    /\ UNCHANGED gmapApt
    /\ UNCHANGED thr

\* a line "1202 ...": an edge of the taxi route network; an index that is
\* not in the node vector makes AddTaxiEdge throw, which ends the reading,
\* as does std::stoul on a field that holds no number
ReadRouteEdge ==
    /\ MoreLines
    /\ \E ln \in Offered(RouteEdgeLines \cup GarbledRouteEdgeLines) :
        /\ LineRead(ln)
        /\ IF HasRwyEndpoints(apt) /\ netwType # NETW_CENTERLINES
           THEN IF stod_throws(ln.n1) \/ stod_throws(ln.n2)
                THEN apt' = apt /\ phase' = "threw"
                ELSE LET r == AddTaxiEdge(apt, ln.n1, ln.n2)
                     IN  /\ apt' = r.apt
                         /\ phase' = IF r.threw THEN "threw" ELSE phase
           ELSE UNCHANGED <<apt, phase>>
    /\ UNCHANGED <<gmapApt, netwType>>
    /\ UNCHANGED thr

\* any other line
ReadOtherLine ==
    /\ MoreLines
    /\ \E ln \in Offered(OtherLines) : LineRead(ln)
    /\ UNCHANGED <<apt, gmapApt, phase, netwType, thr>>

\* the end of the file: the last airport is added if valid
EndOfFile ==
    /\ phase = "reading"
    /\ gmapApt' = IF IsValid(apt) THEN AddApt(gmapApt, apt) ELSE gmapApt
    /\ apt' = NewApt("")
    /\ phase' = "done"
    /\ UNCHANGED <<netwType, ret>>
    /\ UNCHANGED thr

NextParse ==
    \/ ReadAptHeader
    \/ ReadRwyLine
    \/ ReadTaxiLineSection
    \/ ReadRouteNode
    \/ ReadRouteEdge
    \/ ReadOtherLine
    \/ EndOfFile

SpecParse == InitParse /\ [][NextParse]_vars

\* the reading of a file with two airports
InitFormat ==
    /\ apt = NewApt("")
    /\ gmapApt = NoApts
    /\ phase = "reading"
    /\ netwType = NETW_UNKOWN
    /\ ret = [op |-> "ReadOneAptFile", file |-> "two airports", lines |-> <<>>]
    /\ thr = NoThreads

NextFormat ==
    \/ ReadAptHeader
    \/ ReadRwyLine
    \/ ReadTaxiLineSection
    \/ ReadRouteNode
    \/ EndOfFile

SpecFormat == InitFormat /\ [][NextFormat]_vars

\* the reading of a file with malformed lines
InitMalformed ==
    /\ apt = NewApt("")
    /\ gmapApt = NoApts
    /\ phase = "reading"
    /\ netwType = NETW_UNKOWN
    /\ ret = [op |-> "ReadOneAptFile", file |-> "malformed", lines |-> <<>>]
    /\ thr = NoThreads

NextMalformed ==
    \/ ReadAptHeader
    \/ ReadRwyLine
    \/ ReadTaxiLineSection
    \/ ReadRouteNode
    \/ ReadRouteEdge
    \/ EndOfFile

SpecMalformed == InitMalformed /\ [][NextMalformed]_vars

\* the file read was: a header with an id, one runway record whose first end
\* lies in the search box, and one centerline section with these node records
SingleAirportFile(id, nodes) ==
    /\ phase = "done"
    /\ Len(ret.lines) = 3
    /\ ret.lines[1].code = 1 /\ ret.lines[1].nFields >= 5 /\ ret.lines[1].id = id
    /\ ret.lines[2].code = 100 /\ ret.lines[2].nFields = 26
    /\ contains(ParseBox, ret.lines[2].lat1, ret.lines[2].lon1)
    /\ ret.lines[3].code = 120 /\ ret.lines[3].nodes = nodes

\* one airport is registered: 2 runway endpoints, 1 runway edge, 2 taxiway
\* nodes, 1 taxiway edge, and its bounding box contains the runway endpoints
OneRwyOneTaxiway(id) ==
    /\ DOMAIN gmapApt = {id}
    /\ LET a == gmapApt[id]
       IN  /\ Len(a.vecRwyEndPts) = 2
           /\ Cardinality({i \in 1..Len(a.vecTaxiEdges) : a.vecTaxiEdges[i].type = RUN_WAY}) = 1
           /\ Len(a.vecTaxiNodes) = 2
           /\ NumTaxiEdges(a) = 1
           /\ \A i \in 1..2 : contains(a.bounds, a.vecRwyEndPts[i].lat, a.vecRwyEndPts[i].lon)

\* C9 as claimed: a file with one runway and a centerline section of one node
\* record (120 + one 111) registers one airport with 2 runway endpoints,
\* 1 runway edge, 2 taxiway nodes and 1 taxiway edge.
C9_OneNodeRecord ==
    \A id \in {"TEST", "KXYZ"}, nodes \in SectionNodes :
        (SingleAirportFile(id, nodes) /\ Len(nodes) = 1) => OneRwyOneTaxiway(id)

\* C9 (amended): a file with one runway (both thresholds 0, first end in the
\* search box) and a centerline section of two node records with different
\* coordinates registers one airport with exactly 2 runway endpoints, 1 runway
\* edge, 2 taxiway nodes and 1 taxiway edge, whose bounding box contains both
\* runway endpoints.
C9_TwoNodeRecords ==
    \A id \in {"TEST", "KXYZ"}, nodes \in SectionNodes :
        (SingleAirportFile(id, nodes) /\ Len(nodes) = 2 /\ nodes[1] # nodes[2])
            => OneRwyOneTaxiway(id)

\* such a file was read whose two nodes are closer to each other than the
\* similar-node distance, and the airport is registered
C9_Witness ==
    /\ SingleAirportFile("TEST", << <<1, 2>>, <<1, 3>> >>)
    /\ "TEST" \in DOMAIN gmapApt
    /\ Len(gmapApt["TEST"].vecTaxiNodes) = 2

-----------------------------------------------------------------------------
(* LTAptFindRwy: the runway an aircraft is about to land on                *)

\* [deg] maximum difference between the aircraft's heading and a runway
ART_RWY_MAX_HEAD_DIFF == 15
\* factor between the model's final vertical speed and the allowed range
ART_RWY_MAX_VSI_F == 2
\* [m/s] the aircraft model's vertical speed on final, and the speed the
\* approach speed is cut off at (FLAPS_DOWN_SPEED * ART_APPR_SPEED_F)
VSI_FINAL == -4
APPR_SPEED_M_S == 20

\* terrain altitude probe: the simulator reports the terrain as it has
\* loaded it around the camera, which is flat; what it reports for a point
\* is another height once the camera has moved north
YProbe_at_m(lat, lon) == IF thr.lastCameraPos.lat = 40 THEN 3 ELSE 0

\* RwyEndPt::ComputeAlt that probes whether or not the altitude is known
ComputeAltAlways(re) == [re EXCEPT !.alt_m = YProbe_at_m(re.lat, re.lon)]

\* RwyEndPt::ComputeAlt: compute the altitude if not yet known
ComputeAlt(re) ==
    IF re.alt_m = NaN THEN [re EXCEPT !.alt_m = YProbe_at_m(re.lat, re.lon)] ELSE re

\* Apt::UpdateAltitudes
UpdateAltitudes(a) ==
    [a EXCEPT !.alt_m = YProbe_at_m((a.bounds.s + a.bounds.n) \div 2,
                                    (a.bounds.w + a.bounds.e) \div 2),
              !.vecRwyEndPts = [i \in 1..Len(a.vecRwyEndPts) |->
                                    ComputeAlt(a.vecRwyEndPts[i])]]

\* std::map iterates the airports in the order of their ids
AptOrder == <<"KXYZ", "TEST">>

NotFound == [found |-> FALSE]

\* is vsi = dAlt / (dist / speed) outside [vsi_min, vsi_max]?  A distance
\* of 0 makes vsi infinite, or not a number, which no comparison rejects;
\* an unknown altitude makes vsi not a number as well
VsiOutOfRange(dAlt, dist, speed) ==
    IF dAlt = NaN THEN FALSE
    ELSE IF dist = 0 THEN dAlt # 0
    ELSE \/ dAlt * speed < VSI_FINAL * ART_RWY_MAX_VSI_F * dist
         \/ dAlt * speed * ART_RWY_MAX_VSI_F > VSI_FINAL * dist

\* std::isnan(rwyEP.alt_m): the altitude has not been probed yet
AltUnknownNever(rwyEP) == FALSE
AltUnknown(rwyEP) == rwyEP.alt_m = NaN

\* headingDiff > bestHeadingDiff: worse than the best known match?
WorseOrEqualToBest(headingDiff, bestHeadingDiff) == headingDiff >= bestHeadingDiff
WorseThanBest(headingDiff, bestHeadingDiff) == headingDiff > bestHeadingDiff

\* the endpoint LTAptFindRwy aims at: bHeadInverted ? GetRwyEP_B : GetRwyEP_A
AimedRwyEP(e, heading, bHeadInverted) == IF bHeadInverted THEN e.b ELSE e.a

\* the loop over the runways found in one airport
RECURSIVE RwyLoop(_, _, _, _, _, _, _)
RwyLoop(best, id, a, lstRwys, k, from, speed) ==
    IF k > Len(lstRwys) THEN best
    ELSE LET eIdx == lstRwys[k]
             e == a.vecTaxiEdges[eIdx]
             bHeadInverted == HeadingNormalize(from.heading) >= 180
             epIdx == AimedRwyEP(e, from.heading, bHeadInverted)
             rwyEP == a.vecRwyEndPts[epIdx]
             bearing == CoordAngle(from.lat, from.lon, rwyEP.lat, rwyEP.lon)
             headingDiff == Abs(HeadingDiff(from.heading, bearing))
             dist == DistLatLon(from.lat, from.lon, rwyEP.lat, rwyEP.lon)
             dAlt == IF rwyEP.alt_m = NaN THEN NaN ELSE rwyEP.alt_m - from.alt_m
             next == IF \/ AltUnknown(rwyEP)
                        \/ WorseThanBest(headingDiff, best.headingDiff)
                        \/ VsiOutOfRange(dAlt, dist, speed)
                     THEN best
                     ELSE [found |-> TRUE, apt |-> id, rwy |-> eIdx, rwyEndPt |-> epIdx,
                           headingDiff |-> headingDiff]
         IN  RwyLoop(next, id, a, lstRwys, k + 1, from, speed)

\* the loop over the airports
RECURSIVE AptLoop(_, _, _, _, _)
AptLoop(best, g, n, from, speed) ==
    IF n > Len(AptOrder) THEN best
    ELSE LET id == AptOrder[n]
             h == HeadingNormalize(from.heading)
             headSearch == IF h >= 180 THEN h - 180 ELSE h
         IN  IF id \notin DOMAIN g THEN AptLoop(best, g, n + 1, from, speed)
             ELSE AptLoop(RwyLoop(best, id, g[id],
                                  FindEdgesForHeading(g[id], headSearch,
                                                      ART_RWY_MAX_HEAD_DIFF, RUN_WAY),
                                  1, from, speed),
                          g, n + 1, from, speed)

\* LTAptFindRwy: the touch-down position, or NotFound (positionTy())
LTAptFindRwy(g, from, acSpeed) ==
    LET best == AptLoop([found |-> FALSE, headingDiff |-> ART_RWY_MAX_HEAD_DIFF],
                        g, 1, from, Min(acSpeed, APPR_SPEED_M_S))
    IN  IF ~best.found THEN NotFound
        ELSE LET e == g[best.apt].vecTaxiEdges[best.rwy]
                 ep == g[best.apt].vecRwyEndPts[best.rwyEndPt]
             IN  [found |-> TRUE, apt |-> best.apt, rwy |-> best.rwy,
                  rwyEndPt |-> best.rwyEndPt, lat |-> ep.lat, lon |-> ep.lon,
                  alt_m |-> ep.alt_m,
                  heading |-> e.angle + (IF HeadingNormalize(from.heading) >= 180
                                         THEN 180 ELSE 0)]

\* the number of airports registered
MaxApts == 2

\* the runways of the airports: <<lat1, lon1, lat2, lon2>>
LandRwys == {<<0, 0, 100, 0>>, <<100, 0, 0, 9>>, <<0, 0, 0, 100>>, <<0, 10, 100, 10>>}
\* the aircraft: where they are and where they head
AcPositions == {<<-100, 5>>, <<200, 5>>, <<50, -150>>, <<-200, 5>>}
AcHeadings == {0, 5, 90, 175, 185, 270, 355}
AcAltitudes == {100}
AcSpeeds == {10}

InitRwy ==
    /\ apt = NewApt("")
    /\ gmapApt = NoApts
    /\ phase = "published"
    /\ netwType = NETW_UNKOWN
    /\ ret = NoCall
    /\ thr = NoThreads

\* the reading thread adds an airport with one runway
RwyAddApt ==
    /\ Cardinality(DOMAIN gmapApt) < MaxApts
    /\ \E id \in {"TEST", "KXYZ"}, r \in LandRwys :
        /\ id \notin DOMAIN gmapApt
        /\ gmapApt' = AddApt(gmapApt,
                             AddRwyEnds(NewApt(id), r[1], r[2], 0, "A", r[3], r[4], 0, "B"))
    /\ ret' = [op |-> "AddApt"]
    /\ UNCHANGED <<apt, phase, netwType>>
    /\ UNCHANGED thr

\* LTAptUpdateRwyAltitudes
CallUpdateRwyAltitudes ==
    /\ gmapApt' = [id \in DOMAIN gmapApt |-> UpdateAltitudes(gmapApt[id])]
    /\ ret' = [op |-> "LTAptUpdateRwyAltitudes"]
    /\ UNCHANGED <<apt, phase, netwType>>
    /\ UNCHANGED thr

\* LTAptFindRwy for an aircraft
CallFindRwy ==
    /\ \E p \in AcPositions, h \in AcHeadings, alt \in AcAltitudes, speed \in AcSpeeds :
        LET from == [lat |-> p[1], lon |-> p[2], alt_m |-> alt, heading |-> h]
        IN  ret' = [op |-> "LTAptFindRwy", from |-> from, speed |-> speed,
                    pos |-> LTAptFindRwy(gmapApt, from, speed)]
    /\ UNCHANGED <<apt, gmapApt, phase, netwType>>
    /\ UNCHANGED thr

\* the search regions of AsyncReadApt: boundingBoxTy(ctr, radius)
PurgeBoxes ==
    {[set |-> TRUE, s |-> 60, n |-> 300, w |-> -100, e |-> 1],
     [set |-> TRUE, s |-> -50, n |-> 50, w |-> 3, e |-> 50],
     [set |-> TRUE, s |-> 200, n |-> 400, w |-> -100, e |-> 100],
     [set |-> TRUE, s |-> -500, n |-> 500, w |-> -500, e |-> 500]}

\* PurgeApt with the test its comment describes: the airport's centre
\* point is in the box
PurgeAptByCentre(g, box) ==
    LET keep == {id \in DOMAIN g :
                    contains(box, (g[id].bounds.s + g[id].bounds.n) \div 2,
                                  (g[id].bounds.w + g[id].bounds.e) \div 2)}
    IN  [id \in keep |-> g[id]]
\* PurgeApt: erase the airports whose bounds do not overlap the box
PurgeApt(g, box) ==
    LET keep == {id \in DOMAIN g : overlap(g[id].bounds, box)}
    IN  [id \in keep |-> g[id]]

\* AsyncReadApt starts with PurgeApt(box)
CallPurgeApt ==
    /\ \E box \in PurgeBoxes :
        /\ gmapApt' = PurgeApt(gmapApt, box)
        /\ ret' = [op |-> "PurgeApt", box |-> box, before |-> gmapApt]
    /\ UNCHANGED <<apt, phase, netwType>>
    /\ UNCHANGED thr

NextRwy ==
    \/ RwyAddApt
    \/ CallUpdateRwyAltitudes
    \/ CallFindRwy
    \/ CallPurgeApt

SpecRwy == InitRwy /\ [][NextRwy]_vars

\* the directions, in [0,360), in which the runways registered can be used
RwyDirectionsOf(a) ==
    UNION {{a.vecTaxiEdges[i].angle, a.vecTaxiEdges[i].angle + 180} :
            i \in {j \in 1..Len(a.vecTaxiEdges) : a.vecTaxiEdges[j].type = RUN_WAY}}
RwyDirections == UNION {RwyDirectionsOf(gmapApt[id]) : id \in DOMAIN gmapApt}

\* C10: a touch-down position returned by LTAptFindRwy has a runway heading
\* that differs from the aircraft's heading by at most ART_RWY_MAX_HEAD_DIFF,
\* also when the heading window wraps past 0/180 degrees; and if no runway
\* direction lies within that deviation nothing is found.
C10_RwyMatchesHeading ==
    ret.op = "LTAptFindRwy" =>
        /\ ret.pos.found =>
             Abs(HeadingDiff(ret.from.heading, HeadingNormalize(ret.pos.heading)))
                <= ART_RWY_MAX_HEAD_DIFF
        /\ (\A d \in RwyDirections :
                Abs(HeadingDiff(ret.from.heading, d)) > ART_RWY_MAX_HEAD_DIFF)
             => ~ret.pos.found


\* the runways the search of the last call went through, in search order:
\* <<n, k>> is the k-th runway found in the n-th airport
RwyListOf(n) ==
    LET h == HeadingNormalize(ret.from.heading)
    IN  IF AptOrder[n] \notin DOMAIN gmapApt THEN <<>>
        ELSE FindEdgesForHeading(gmapApt[AptOrder[n]], IF h >= 180 THEN h - 180 ELSE h,
                                 ART_RWY_MAX_HEAD_DIFF, RUN_WAY)
Searched == {c \in (1..Len(AptOrder)) \X (1..MaxApts * 2) : c[2] <= Len(RwyListOf(c[1]))}
SearchedEdge(c) == gmapApt[AptOrder[c[1]]].vecTaxiEdges[RwyListOf(c[1])[c[2]]]
SearchedEP(c) ==
    gmapApt[AptOrder[c[1]]].vecRwyEndPts[
        IF HeadingNormalize(ret.from.heading) >= 180 THEN SearchedEdge(c).b
                                                     ELSE SearchedEdge(c).a]
\* the deviation of the bearing to the endpoint from the aircraft's heading
Deviation(c) ==
    Abs(HeadingDiff(ret.from.heading,
                    CoordAngle(ret.from.lat, ret.from.lon, SearchedEP(c).lat, SearchedEP(c).lon)))
\* the candidates that pass the altitude, heading and vertical speed filters
Survivors ==
    {c \in Searched :
        /\ SearchedEP(c).alt_m # NaN
        /\ Deviation(c) <= ART_RWY_MAX_HEAD_DIFF
        /\ ~VsiOutOfRange(SearchedEP(c).alt_m - ret.from.alt_m,
                          DistLatLon(ret.from.lat, ret.from.lon,
                                     SearchedEP(c).lat, SearchedEP(c).lon),
                          Min(ret.speed, APPR_SPEED_M_S))}
BestSurvivors == {c \in Survivors : \A d \in Survivors : Deviation(c) <= Deviation(d)}
Before(c, d) == c[1] < d[1] \/ (c[1] = d[1] /\ c[2] < d[2])
ReturnedIs(c) ==
    /\ ret.pos.found
    /\ ret.pos.apt = AptOrder[c[1]]
    /\ ret.pos.rwy = RwyListOf(c[1])[c[2]]
    /\ ret.pos.lat = SearchedEP(c).lat
    /\ ret.pos.lon = SearchedEP(c).lon

\* C11 (as stated): LTAptFindRwy returns the surviving candidate with the
\* smallest heading deviation, and of several candidates with exactly equal
\* deviation the one found first in search order.
C11_FirstFoundWins ==
    ret.op = "LTAptFindRwy" =>
        IF Survivors = {} THEN ~ret.pos.found
        ELSE \E c \in BestSurvivors :
                /\ \A d \in BestSurvivors : d = c \/ Before(c, d)
                /\ ReturnedIs(c)

\* C11 (amended): LTAptFindRwy returns the surviving candidate with the
\* smallest heading deviation, and of several candidates with exactly equal
\* deviation the one found last in search order; without a surviving
\* candidate nothing is found.
C11_LastFoundWins ==
    ret.op = "LTAptFindRwy" =>
        IF Survivors = {} THEN ~ret.pos.found
        ELSE \E c \in BestSurvivors :
                /\ \A d \in BestSurvivors : d = c \/ Before(d, c)
                /\ ReturnedIs(c)

\* two candidates at different runway ends survive with equal deviation
C11_Witness ==
    /\ ret.op = "LTAptFindRwy"
    /\ ret.pos.found
    /\ \E c, d \in BestSurvivors :
            /\ Before(c, d)
            /\ SearchedEP(c).lon # SearchedEP(d).lon
            /\ ReturnedIs(d)

\* C12: LTAptFindRwy never returns a runway endpoint whose altitude is not
\* known yet: the position returned has an altitude, and as long as all
\* runway endpoints registered have an unknown altitude nothing is found.
C12_AltitudeKnown ==
    ret.op = "LTAptFindRwy" =>
        /\ ret.pos.found =>
              /\ ret.pos.alt_m # NaN
              /\ gmapApt[ret.pos.apt].vecRwyEndPts[ret.pos.rwyEndPt].alt_m # NaN
        /\ (\A id \in DOMAIN gmapApt : \A i \in 1..Len(gmapApt[id].vecRwyEndPts) :
                gmapApt[id].vecRwyEndPts[i].alt_m = NaN)
              => ~ret.pos.found

\* a runway is found while a runway of another airport, which the search
\* went through as well, still has no altitude
C12_Witness ==
    /\ ret.op = "LTAptFindRwy"
    /\ ret.pos.found
    /\ \E c \in Searched :
            /\ SearchedEP(c).alt_m = NaN
            /\ Deviation(c) <= ART_RWY_MAX_HEAD_DIFF

\* do two boxes share a point?  Stated on the corners, as intervals
BoxesMeet(b1, b2) ==
    /\ Max(b1.s, b2.s) <= Min(b1.n, b2.n)
    /\ Max(b1.w, b2.w) <= Min(b1.e, b2.e)
BoxInside(b1, b2) == b2.s <= b1.s /\ b1.n <= b2.n /\ b2.w <= b1.w /\ b1.e <= b2.e

-----------------------------------------------------------------------------
(* The threads: X-Plane's main thread calls LTAptEnable, LTAptRefresh,     *)
(* LTAptFindRwy, LTAptSnap and LTAptDisable; LTAptRefresh starts           *)
(* AsyncReadApt with std::async, which reads the apt.dat files line by     *)
(* line.  thr.mtx is mtxGMapApt: Unlocked, MainThread or the number of the *)
(* reading thread that holds it.                                           *)

Unlocked == 0
MainThread == -1

\* the apt.dat of a scenery pack and the default apt.dat, line by line; the
\* nodes of the 120 section lie on one spot, as nodes of actual files do.
\* The default file defines TEST again, with another runway, and KXYZ twice.
SceneryAptDat ==
    << [code |-> 1, id |-> "TEST", nFields |-> 5],
       [code |-> 100, nFields |-> 26, lat1 |-> 0, lon1 |-> 0, lat2 |-> 0, lon2 |-> 10],
       [code |-> 120],
       [code |-> 111, lat |-> 1, lon |-> 2],
       [code |-> 111, lat |-> 1, lon |-> 2],
       [code |-> 111, lat |-> 1, lon |-> 2],
       [code |-> 0] >>
DefaultAptDat ==
    << [code |-> 1, id |-> "KXYZ", nFields |-> 5],
       [code |-> 100, nFields |-> 26, lat1 |-> 20, lon1 |-> 0, lat2 |-> 20, lon2 |-> 10],
       [code |-> 1, id |-> "TEST", nFields |-> 5],
       [code |-> 100, nFields |-> 26, lat1 |-> 2, lon1 |-> 0, lat2 |-> 2, lon2 |-> 10],
       [code |-> 1, id |-> "KXYZ", nFields |-> 5],
       [code |-> 100, nFields |-> 26, lat1 |-> 22, lon1 |-> 0, lat2 |-> 22, lon2 |-> 10] >>
ThreadFiles == <<SceneryAptDat, DefaultAptDat>>

\* AsyncReadApt(ctr, radius) as std::async starts it
JobStart(box) ==
    [pc |-> "purge", box |-> box, file |-> 0, line |-> 0, ln |-> [code |-> 0],
     given |-> FALSE, apt |-> NewApt(""), netwType |-> NETW_UNKOWN, recs |-> <<>>,
     cntFiles |-> 0, cont |-> "none", readAfterStop |-> 0]

Running(j) == thr.w[j].pc \notin {"none", "done"}
AtEof(w) == w.line >= Len(ThreadFiles[w.file])

\* safeGetline: the next line of the file; readAfterStop counts the lines
\* read since bStopThread was set (up to 3)
ReadLine(w) ==
    [w EXCEPT !.line = @ + 1, !.ln = ThreadFiles[w.file][w.line + 1], !.given = FALSE,
              !.readAfterStop = IF thr.bStopThread THEN Min(@ + 1, 3) ELSE @]

\* ReadOneAptFile / AsyncReadApt open the next file
OpenFile(w, f) ==
    [w EXCEPT !.file = f, !.line = 0, !.given = FALSE, !.apt = NewApt(""),
              !.netwType = NETW_UNKOWN, !.cntFiles = @ + 1, !.pc = "read"]

\* where AsyncReadApt goes on after a file
AfterFile(w) == IF w.file < Len(ThreadFiles) THEN "scenery" ELSE "finish"

\* the body of the loop of ReadOneAptFile for the line w.ln
ProcessLine(w) ==
    IF w.ln.code = 1
    THEN IF IsValid(w.apt) THEN [w EXCEPT !.pc = "addApt", !.cont = "count"]
         ELSE [w EXCEPT !.apt = NewApt(""), !.pc = "count"]
    ELSE IF w.ln.code = 100
    THEN IF HasId(w.apt) /\ w.ln.nFields = 26
         THEN IF HasTaxiWays(w.apt) \/ contains(w.box, w.ln.lat1, w.ln.lon1)
              THEN [w EXCEPT !.apt = AddRwyEnds(w.apt, w.ln.lat1, w.ln.lon1, 0, "A",
                                                w.ln.lat2, w.ln.lon2, 0, "B")]
              ELSE [w EXCEPT !.apt = NewApt("")]
         ELSE w
    ELSE IF w.ln.code = 120 /\ HasRwyEndpoints(w.apt) /\ w.netwType # NETW_TAXIROUTES
    THEN [w EXCEPT !.pc = "block", !.recs = <<>>]
    ELSE w

\* the end of ReadOneTaxiLine: the nodes collected become nodes and edges
EndBlock(w, given) ==
    LET a2 == ReadOneTaxiLine(w.apt, w.recs)
    IN  [w EXCEPT !.apt = a2, !.recs = <<>>, !.given = given, !.pc = "read",
                  !.netwType = IF HasTaxiWays(a2) THEN NETW_CENTERLINES ELSE @]

\* a step of the reading thread j that only changes the thread itself
WorkerStep(j, w2) ==
    /\ thr' = [thr EXCEPT !.w[j] = w2]
    /\ ret' = [op |-> "AsyncReadApt"]
    /\ UNCHANGED <<apt, gmapApt, phase, netwType>>

\* PurgeApt: std::lock_guard lock(mtxGMapApt)
WorkerLockPurge(j) ==
    /\ thr.w[j].pc = "purge"
    /\ thr.mtx = Unlocked
    /\ thr' = [thr EXCEPT !.mtx = j, !.w[j].pc = "purging"]
    /\ ret' = [op |-> "AsyncReadApt"]
    /\ UNCHANGED <<apt, gmapApt, phase, netwType>>

\* PurgeApt: the loop that erases, and the end of the lock's scope
WorkerPurge(j) ==
    /\ thr.w[j].pc = "purging"
    /\ gmapApt' = PurgeApt(gmapApt, thr.w[j].box)
    /\ thr' = [thr EXCEPT !.mtx = Unlocked, !.w[j].pc = "scenery",
                          !.access = [by |-> j, what |-> "erase", locked |-> thr.mtx = j]]
    /\ ret' = [op |-> "AsyncReadApt"]
    /\ UNCHANGED <<apt, phase, netwType>>

\* AsyncReadApt: while (!bStopThread && fScenery.good()) read the apt.dat
\* of the next scenery pack if it can be opened
WorkerSceneryLoop(j) ==
    /\ thr.w[j].pc = "scenery"
    /\ WorkerStep(j, IF ~thr.bStopThread /\ thr.w[j].file < Len(ThreadFiles) - 1
                     THEN IF thr.present[thr.w[j].file + 1]
                          THEN OpenFile(thr.w[j], thr.w[j].file + 1)
                          ELSE [thr.w[j] EXCEPT !.file = @ + 1]
                     ELSE [thr.w[j] EXCEPT !.pc = "default"])

\* AsyncReadApt: if (!bStopThread) read the default apt.dat if it can be
\* opened
WorkerDefaultFile(j) ==
    /\ thr.w[j].pc = "default"
    /\ WorkerStep(j, IF ~thr.bStopThread /\ thr.present[Len(ThreadFiles)]
                     THEN OpenFile(thr.w[j], Len(ThreadFiles))
                     ELSE [thr.w[j] EXCEPT !.pc = "finish"])

\* ReadOneAptFile: while (!bStopThread && (bProcessGivenLn || fIn)): take
\* the line given back by ReadOneTaxiLine or read one, and process it
WorkerReadLine(j) ==
    /\ thr.w[j].pc = "read"
    /\ WorkerStep(j, IF thr.bStopThread \/ (~thr.w[j].given /\ AtEof(thr.w[j]))
                     THEN [thr.w[j] EXCEPT !.pc = "eof"]
                     ELSE IF thr.w[j].given
                     THEN ProcessLine([thr.w[j] EXCEPT !.given = FALSE])
                     ELSE ProcessLine(ReadLine(thr.w[j])))

\* ReadOneTaxiLine: while (fIn): read a line, collect it if it is a node
\* (111-116), otherwise end the section and give the line back
WorkerReadBlockLine(j) ==
    /\ thr.w[j].pc = "block"
    /\ WorkerStep(j, IF AtEof(thr.w[j]) THEN EndBlock(thr.w[j], FALSE)
                     ELSE LET w1 == ReadLine(thr.w[j])
                          IN  IF w1.ln.code = 111
                              THEN [w1 EXCEPT !.recs = Append(@, <<w1.ln.lat, w1.ln.lon>>)]
                              ELSE EndBlock(w1, TRUE))

\* ReadOneAptFile, airport header: gmapApt.count(fields[4]) == 0, read
\* without the lock
WorkerCount(j) ==
    /\ thr.w[j].pc = "count"
    /\ thr' = [thr EXCEPT
                 !.w[j].pc = "read",
                 !.w[j].apt = IF thr.w[j].ln.nFields >= 5
                                 /\ thr.w[j].ln.id \notin DOMAIN gmapApt
                              THEN NewApt(thr.w[j].ln.id) ELSE @,
                 !.access = [by |-> j, what |-> "count", locked |-> thr.mtx = j]]
    /\ ret' = [op |-> "AsyncReadApt"]
    /\ UNCHANGED <<apt, gmapApt, phase, netwType>>

\* Apt::AddApt: std::lock_guard lock(mtxGMapApt), without waiting for it
WorkerLockAddNoWait(j) ==
    /\ thr.w[j].pc = "addApt"
    /\ thr' = [thr EXCEPT !.mtx = j, !.w[j].pc = "emplace"]
    /\ ret' = [op |-> "AsyncReadApt"]
    /\ UNCHANGED <<apt, gmapApt, phase, netwType>>
\* Apt::AddApt: std::lock_guard lock(mtxGMapApt)
WorkerLockAdd(j) ==
    /\ thr.w[j].pc = "addApt"
    /\ thr.mtx = Unlocked
    /\ thr' = [thr EXCEPT !.mtx = j, !.w[j].pc = "emplace"]
    /\ ret' = [op |-> "AsyncReadApt"]
    /\ UNCHANGED <<apt, gmapApt, phase, netwType>>

\* Apt::AddApt: gmapApt.emplace(key, std::move(apt)); the object moved
\* from keeps its id or not
WorkerEmplace(j) ==
    /\ thr.w[j].pc = "emplace"
    /\ gmapApt' = AddApt(gmapApt, thr.w[j].apt)
    /\ \E id \in {"", thr.w[j].apt.id} :
        thr' = [thr EXCEPT !.mtx = Unlocked, !.w[j].pc = thr.w[j].cont,
                           !.w[j].apt = MovedFrom(thr.w[j].apt, id),
                           !.access = [by |-> j, what |-> "emplace",
                                       locked |-> thr.mtx = j]]
    /\ ret' = [op |-> "AsyncReadApt"]
    /\ UNCHANGED <<apt, phase, netwType>>

\* ReadOneAptFile after the loop: the last airport is added if valid
WorkerEof(j) ==
    /\ thr.w[j].pc = "eof"
    /\ WorkerStep(j, IF IsValid(thr.w[j].apt)
                     THEN [thr.w[j] EXCEPT !.pc = "addApt", !.cont = AfterFile(thr.w[j])]
                     ELSE [thr.w[j] EXCEPT !.pc = AfterFile(thr.w[j])])

\* AsyncReadApt, the end: if (!cntFiles) the warning WARN_APTDAT_FAILED is
\* shown; otherwise gmapApt.size() is read for the log message, without
\* the lock
WorkerFinish(j) ==
    /\ thr.w[j].pc = "finish"
    /\ thr' = [thr EXCEPT
                 !.w[j] = [pc |-> "done", warned |-> thr.w[j].cntFiles = 0],
                 !.access = IF thr.w[j].cntFiles = 0 THEN @
                            ELSE [by |-> j, what |-> "size", locked |-> thr.mtx = j]]
    /\ ret' = [op |-> "AsyncReadApt"]
    /\ UNCHANGED <<apt, gmapApt, phase, netwType>>

\* dataRefs.GetFdStdDistance_m(): the search radius for planes
FdStdDistance_m == 15

\* DataRefs::GetViewPos(): where the camera can be; before the simulator
\* has a view the position is not a number
Cameras ==
    {[lat |-> NaN, lon |-> NaN], [lat |-> 0, lon |-> 5], [lat |-> 40, lon |-> 5]}

\* positionTy::isNormal
isNormal(p) == p.lat # NaN /\ p.lon # NaN

\* lastCameraPos.dist(camera) < radius taken to be false always
CameraNearNever(last, camera, radius) == FALSE

\* lastCameraPos.dist(camera) < radius, false if lastCameraPos is not a number
CameraNear(last, camera, radius) ==
    isNormal(last) /\ DistLatLon(last.lat, last.lon, camera.lat, camera.lon) < radius

\* boundingBoxTy(ctr, radius)
boundingBoxTy(ctr, radius) ==
    [set |-> TRUE, s |-> ctr.lat - radius, n |-> ctr.lat + radius,
     w |-> ctr.lon - radius, e |-> ctr.lon + radius]

\* LTAptRefresh, the safety check, left out
JobOutstandingNever == FALSE
\* LTAptRefresh, the safety check: futRefreshing.valid() and not yet ready
JobOutstanding == thr.futValid /\ Running(thr.futJob)

\* LTAptRefresh (LTAptEnable is a call of it): nothing while a thread is
\* reading; the altitudes if the camera stayed and airports were added;
\* otherwise a new thread for the region twice the radius around the camera
FgRefreshAt(camera) ==
    /\ thr.fg = "idle"
    /\ IF JobOutstanding \/ ~isNormal(camera)
        THEN /\ ret' = [op |-> "LTAptRefresh", started |-> FALSE]
             /\ UNCHANGED <<gmapApt, thr>>
        ELSE IF CameraNear(thr.lastCameraPos, camera, FdStdDistance_m)
        THEN IF thr.bAptsAdded
             THEN /\ thr.mtx = Unlocked
                  /\ gmapApt' = [id \in DOMAIN gmapApt |-> UpdateAltitudes(gmapApt[id])]
                  /\ thr' = [thr EXCEPT
                               !.bAptsAdded = FALSE,
                               !.YProbe = IF DOMAIN gmapApt # {} THEN "created" ELSE @,
                               !.access = [by |-> MainThread, what |-> "update",
                                           locked |-> TRUE]]
                  /\ ret' = [op |-> "LTAptRefresh", started |-> FALSE]
             ELSE /\ ret' = [op |-> "LTAptRefresh", started |-> FALSE]
                  /\ UNCHANGED <<gmapApt, thr>>
        ELSE /\ \E j \in 1..NumThreads :
                  /\ ~Running(j)
                  /\ \A i \in 1..(j - 1) : Running(i)
                  /\ thr' = [thr EXCEPT
                               !.lastCameraPos = camera,
                               !.bStopThread = FALSE,
                               !.futValid = TRUE,
                               !.futJob = j,
                               !.bAptsAdded = TRUE,
                               !.w[j] = JobStart(boundingBoxTy(camera, 2 * FdStdDistance_m))]
             /\ ret' = [op |-> "LTAptRefresh", started |-> TRUE, camera |-> camera]
             /\ UNCHANGED gmapApt
    /\ UNCHANGED <<apt, phase, netwType>>

\* LTAptRefresh wherever the camera is
FgRefresh == \E camera \in Cameras : FgRefreshAt(camera)

\* LTAptRefresh while the camera stays within the radius of the last scan
FgRefreshStay ==
    \E camera \in Cameras :
        /\ isNormal(camera)
        /\ CameraNear(thr.lastCameraPos, camera, FdStdDistance_m)
        /\ FgRefreshAt(camera)

\* LTAptFind: the first airport, in the order of the map, whose bounds
\* contain the position; "" for nullptr
LTAptFind(g, lat, lon) ==
    LET inside == {i \in 1..Len(AptOrder) :
                  AptOrder[i] \in DOMAIN g /\ contains(g[AptOrder[i]].bounds, lat, lon)}
    IN  IF inside = {} THEN "" ELSE AptOrder[CHOOSE i \in inside : \A k \in inside : i <= k]

\* the aircraft whose runway is searched while the thread reads
ThreadAircraft == [lat |-> 0, lon |-> -200, alt_m |-> 100, heading |-> 90]
\* the positions snapped while the thread reads
ThreadSnapPositions == {positionTy(1, 4, 90, 3), positionTy(21, 4, 90, 3)}

\* LTAptFindRwy and LTAptSnap: std::lock_guard lock(mtxGMapApt)
FgLock ==
    /\ thr.fg = "idle"
    /\ thr.mtx = Unlocked
    /\ \E call \in {"FindRwy", "Snap"} :
         /\ thr' = [thr EXCEPT !.mtx = MainThread, !.fg = call]
         /\ ret' = [op |-> "lock", call |-> call, apts |-> DOMAIN gmapApt]
    /\ UNCHANGED <<apt, gmapApt, phase, netwType>>

\* LTAptFindRwy under the lock, up to its return
FgFindRwy ==
    /\ thr.fg = "FindRwy"
    /\ ret' = [op |-> "LTAptFindRwy", from |-> ThreadAircraft, speed |-> 10,
               pos |-> LTAptFindRwy(gmapApt, ThreadAircraft, 10)]
    /\ thr' = [thr EXCEPT !.mtx = Unlocked, !.fg = "idle",
                          !.access = [by |-> MainThread, what |-> "find",
                                      locked |-> thr.mtx = MainThread]]
    /\ UNCHANGED <<apt, gmapApt, phase, netwType>>

\* LTAptSnap under the lock, up to its return
FgSnap ==
    /\ thr.fg = "Snap"
    /\ \E pos \in ThreadSnapPositions :
        LET id == LTAptFind(gmapApt, pos.lat, pos.lon)
        IN  IF id = ""
            THEN /\ ret' = [op |-> "LTAptSnap", apt |-> id, ok |-> FALSE]
                 /\ UNCHANGED gmapApt
            ELSE LET r == SnapToTaxiway(gmapApt[id], pos, NoPrevPos)
                 IN  /\ ret' = [op |-> "LTAptSnap", apt |-> id, ok |-> r.ok]
                     /\ gmapApt' = [gmapApt EXCEPT ![id] = r.apt]
    /\ thr' = [thr EXCEPT !.mtx = Unlocked, !.fg = "idle",
                          !.access = [by |-> MainThread, what |-> "snap",
                                      locked |-> thr.mtx = MainThread]]
    /\ UNCHANGED <<apt, phase, netwType>>

\* LTAptDisable: bStopThread = true
FgDisable ==
    /\ thr.fg = "idle"
    /\ thr' = [thr EXCEPT !.bStopThread = TRUE,
                          !.fg = IF thr.futValid THEN "DisableWait" ELSE "DisableDestroy"]
    /\ ret' = [op |-> "LTAptDisable"]
    /\ UNCHANGED <<apt, gmapApt, phase, netwType>>

\* LTAptDisable: futRefreshing.wait() returns although the thread runs
FgDisableNoWait ==
    /\ thr.fg = "DisableWait"
    /\ thr' = [thr EXCEPT !.fg = "DisableDestroy"]
    /\ ret' = [op |-> "wait"]
    /\ UNCHANGED <<apt, gmapApt, phase, netwType>>
\* LTAptDisable: futRefreshing.wait() returns when the thread has ended
FgDisableWait ==
    /\ thr.fg = "DisableWait"
    /\ ~Running(thr.futJob)
    /\ thr' = [thr EXCEPT !.fg = "DisableDestroy"]
    /\ ret' = [op |-> "wait"]
    /\ UNCHANGED <<apt, gmapApt, phase, netwType>>

\* LTAptDisable: Apt::DestroyYProbe(), and the return
FgDestroyYProbe ==
    /\ thr.fg = "DisableDestroy"
    /\ thr' = [thr EXCEPT !.YProbe = "NULL", !.fg = "idle"]
    /\ ret' = [op |-> "DestroyYProbe", was |-> thr.YProbe]
    /\ UNCHANGED <<apt, gmapApt, phase, netwType>>

\* one step of the reading thread j
Worker(j) ==
    \/ WorkerLockPurge(j)
    \/ WorkerPurge(j)
    \/ WorkerSceneryLoop(j)
    \/ WorkerDefaultFile(j)
    \/ WorkerReadLine(j)
    \/ WorkerReadBlockLine(j)
    \/ WorkerCount(j)
    \/ WorkerLockAdd(j)
    \/ WorkerEmplace(j)
    \/ WorkerEof(j)
    \/ WorkerFinish(j)

\* one step of the thread that calls the interface
Foreground ==
    \/ FgRefresh
    \/ FgLock
    \/ FgFindRwy
    \/ FgSnap
    \/ FgDisable
    \/ FgDisableWait
    \/ FgDestroyYProbe

\* each apt.dat file is there or not when the plugin is enabled
InitThreads ==
    /\ apt = NewApt("")
    /\ gmapApt = NoApts
    /\ phase = "published"
    /\ netwType = NETW_UNKOWN
    /\ ret = NoCall
    /\ \E p \in [1..Len(ThreadFiles) -> BOOLEAN] : thr = [NoThreads EXCEPT !.present = p]

NextThreads ==
    \/ Foreground
    \/ \E j \in 1..NumThreads : Worker(j)

SpecThreads == InitThreads /\ [][NextThreads]_vars

-----------------------------------------------------------------------------
(* The reading thread and its callers                                      *)

\* the threads that read apt.dat files at the moment
JobsInFlight == {j \in 1..NumThreads : Running(j)}

\* C15: at most one reading thread is in flight in every reachable state,
\* and a call of LTAptRefresh made while one is in flight starts no thread
\* and leaves lastCameraPos, bAptsAdded, bStopThread and the map of
\* airports as they were
C15_OneJobRefreshNoOp ==
    /\ [](Cardinality(JobsInFlight) <= 1)
    /\ [][(ret'.op = "LTAptRefresh" /\ JobsInFlight # {}) =>
            /\ thr'.w = thr.w
            /\ thr'.lastCameraPos = thr.lastCameraPos
            /\ thr'.bAptsAdded = thr.bAptsAdded
            /\ thr'.bStopThread = thr.bStopThread
            /\ gmapApt' = gmapApt]_vars

\* LTAptRefresh has returned while a thread reads, with airports present
C15_Witness ==
    /\ ret.op = "LTAptRefresh"
    /\ ~ret.started
    /\ JobsInFlight # {}
    /\ thr.bAptsAdded
    /\ DOMAIN gmapApt # {}

\* C16: every read and every write of the map of airports, by the reading
\* thread or by the calling thread, is made by a thread that holds
\* mtxGMapApt at that moment
C16_AccessUnderLock == thr.access.locked

\* C17: while a call of LTAptFindRwy or LTAptSnap is in progress, no step
\* of any thread inserts an airport into the map or erases one from it:
\* the airports the call started with are the airports of the map until
\* the call returns
C17_MapStableDuringQuery ==
    [][thr.fg \in {"FindRwy", "Snap"} =>
        /\ DOMAIN gmapApt' = DOMAIN gmapApt
        /\ (ret.op = "lock" => ret.apts = DOMAIN gmapApt)]_vars

\* a call of LTAptSnap holds the lock on a map with an airport while the
\* reading thread has an airport to add
C17_Witness ==
    /\ thr.fg = "Snap"
    /\ DOMAIN gmapApt # {}
    /\ \E j \in 1..NumThreads : Running(j) /\ thr.w[j].pc = "addApt"

\* C18: bStopThread is polled at each line read, also at those read inside
\* a 120 section: once it is set a reading thread reads at most one more
\* line of its file
C18_StopsWithinOneLine ==
    \A j \in 1..NumThreads : Running(j) => thr.w[j].readAfterStop <= 1

\* the threads under a scheduler that lets a thread that can run take its
\* next step, and lets futRefreshing.wait() return once the thread ended
SpecThreadsFair ==
    /\ SpecThreads
    /\ \A j \in 1..NumThreads : WF_vars(Worker(j))
    /\ WF_vars(FgDisableWait)
    /\ WF_vars(FgDestroyYProbe)

\* C19: LTAptDisable sets bStopThread, then waits until the reading thread,
\* if there is one, has ended, and only then destroys the Y probe: the
\* probe is never destroyed while a thread reads, and a call of
\* LTAptDisable always comes to its end
C19_ShutdownWaitsThenDestroys ==
    /\ [](thr.fg \in {"DisableWait", "DisableDestroy"} => thr.bStopThread)
    /\ [](thr.fg = "DisableDestroy" => JobsInFlight = {})
    /\ [][ret'.op = "DestroyYProbe" =>
            thr.fg = "DisableDestroy" /\ JobsInFlight = {} /\ thr'.YProbe = "NULL"]_vars
    /\ (thr.fg \in {"DisableWait", "DisableDestroy"}) ~> (thr.fg = "idle")

\* LTAptDisable has destroyed the probe that the altitudes were taken with,
\* after a thread that it stopped inside a file
C19_Witness ==
    /\ ret.op = "DestroyYProbe"
    /\ ret.was = "created"
    /\ thr.futValid
    /\ thr.bStopThread
    /\ thr.w[thr.futJob].pc = "done"
    /\ thr.fg = "idle"

-----------------------------------------------------------------------------
(* The format of the taxi network, airport by airport                      *)

\* the line read last, and the header of the airport it belongs to
LastLine == ret.lines[Len(ret.lines)]
Headers == {i \in 1..Len(ret.lines) : ret.lines[i].code = 1}
LastHeader == CHOOSE h \in Headers : \A i \in Headers : i <= h

\* the line read last is a record of a taxi network, and the first such
\* record among the records of its airport, which is new to the map and
\* has a runway
FirstNetworkRecordOfAirport ==
    /\ ret.op = "ReadOneAptFile"
    /\ phase = "reading"
    /\ Headers # {}
    /\ LastHeader < Len(ret.lines)
    /\ LastLine.code \in {120, 1201}
    /\ \A i \in (LastHeader + 1)..(Len(ret.lines) - 1) :
          ret.lines[i].code \notin {120, 1201, 1202}
    /\ apt.id = ret.lines[LastHeader].id
    /\ apt.id \notin DOMAIN gmapApt
    /\ HasRwyEndpoints(apt)

\* C20: the format of the taxi network is chosen airport by airport: the
\* first network record among an airport's own records is accepted (a 1201
\* node becomes a node of the airport, a 120 section of two nodes apart
\* becomes a taxiway edge), whatever format the airports before it in the
\* file used
C20_FormatPerAirport ==
    FirstNetworkRecordOfAirport =>
        IF LastLine.code = 1201
        THEN \E i \in 1..Len(apt.vecTaxiNodes) :
                /\ apt.vecTaxiNodes[i].lat = LastLine.lat
                /\ apt.vecTaxiNodes[i].lon = LastLine.lon
        ELSE NumTaxiEdges(apt) >= 1

-----------------------------------------------------------------------------
(* The runway records of an airport and the search box                     *)

\* the file read so far holds the records of one airport: its header, with
\* an id, is the first line and the only header
OneAirportRead ==
    /\ ret.op = "ReadOneAptFile"
    /\ ret.file = "any"
    /\ Headers = {1}
    /\ ret.lines[1].nFields >= 5

\* the valid runway records read so far (26 fields), in the order of the file
RwyRecords == SelectSeq(ret.lines, LAMBDA ln : ln.code = 100 /\ ln.nFields = 26)

\* the first end of a runway record lies within the limits of the search box
FirstEndInBox(ln) ==
    /\ -5 <= ln.lat1 /\ ln.lat1 <= 5
    /\ -5 <= ln.lon1 /\ ln.lon1 <= 15

\* C21: the first valid runway record of an airport decides: the airport is
\* registered only if the first end of that record lies in the search box;
\* once that record is accepted every later runway record of the airport is
\* added, wherever it lies, and the airport is registered at the end of the
\* file; if it is rejected no runway record of the airport is added and the
\* airport is not registered.
C21_FirstRunwayDecides ==
    OneAirportRead =>
        LET id == ret.lines[1].id
        IN  /\ id \in DOMAIN gmapApt => (RwyRecords # <<>> /\ FirstEndInBox(RwyRecords[1]))
            /\ (RwyRecords # <<>> /\ FirstEndInBox(RwyRecords[1])) =>
                  IF phase = "done"
                  THEN /\ id \in DOMAIN gmapApt
                       /\ Len(gmapApt[id].vecRwyEndPts) = 2 * Len(RwyRecords)
                  ELSE /\ apt.id = id
                       /\ Len(apt.vecRwyEndPts) = 2 * Len(RwyRecords)
            /\ (RwyRecords # <<>> /\ ~FirstEndInBox(RwyRecords[1])) =>
                  /\ apt.vecRwyEndPts = <<>>
                  /\ id \notin DOMAIN gmapApt

\* an airport is registered with the two runways of its file, the second of
\* which lies outside the search box
C21_Witness ==
    /\ OneAirportRead
    /\ phase = "done"
    /\ Len(RwyRecords) = 2
    /\ FirstEndInBox(RwyRecords[1])
    /\ ~FirstEndInBox(RwyRecords[2])
    /\ Len(gmapApt[ret.lines[1].id].vecRwyEndPts) = 4

-----------------------------------------------------------------------------
(* The airports of the registry are valid                                  *)

\* an airport has an id, a runway edge between two of its runway endpoints
\* and hence at least one edge
HasIdAndRunway(a) ==
    /\ a.id # ""
    /\ Len(a.vecRwyEndPts) >= 2
    /\ \E i \in 1..Len(a.vecTaxiEdges) :
        /\ a.vecTaxiEdges[i].type = RUN_WAY
        /\ a.vecTaxiEdges[i].a \in 1..Len(a.vecRwyEndPts)
        /\ a.vecTaxiEdges[i].b \in 1..Len(a.vecRwyEndPts)
        /\ a.vecTaxiEdges[i].a # a.vecTaxiEdges[i].b

\* C22: in every reachable state every airport of the registry is stored
\* under its id, which is not empty, and has a runway edge with its two
\* runway endpoints; an airport enters the registry only from an object
\* that has an id and a runway at that moment, so an airport without id or
\* without runway is never published.
C22_RegistryValid ==
    /\ [](\A k \in DOMAIN gmapApt : gmapApt[k].id = k /\ HasIdAndRunway(gmapApt[k]))
    /\ [][\A k \in DOMAIN gmapApt' \ DOMAIN gmapApt : apt.id = k /\ HasIdAndRunway(apt)]_vars

\* the file held an airport with a runway, which is registered, and then an
\* airport without any runway, which was discarded at the end of the file
C22_Witness ==
    /\ ret.op = "ReadOneAptFile"
    /\ phase = "done"
    /\ Len(ret.lines) = 3
    /\ ret.lines[1] = [code |-> 1, id |-> "TEST", nFields |-> 5]
    /\ ret.lines[2].code = 100
    /\ ret.lines[3] = [code |-> 1, id |-> "KXYZ", nFields |-> 5]
    /\ DOMAIN gmapApt = {"TEST"}
    /\ HasIdAndRunway(gmapApt["TEST"])

-----------------------------------------------------------------------------
(* The order of the files and the first definition of an airport           *)

\* the first end of the first runway of a registered airport
FirstRwyEnd(id) == gmapApt[id].vecRwyEndPts[1]

\* C23: the reading thread opens the files in their order, the default file
\* last, and never turns back; no step of the reading thread replaces or
\* changes an entry that is registered before and after the step; hence
\* the entry of an id is the definition met first: TEST as the scenery pack
\* defines it (as the default file does if the pack has no apt.dat), KXYZ
\* as the default file defines it first.
C23_FirstDefinitionWins ==
    /\ [][\A j \in 1..NumThreads :
            (Running(j) /\ thr'.w[j].pc \notin {"none", "done"}) =>
                /\ thr'.w[j].file \in {thr.w[j].file, thr.w[j].file + 1}
                /\ thr'.w[j].file <= Len(ThreadFiles)]_vars
    /\ [][ret'.op = "AsyncReadApt" =>
            \A k \in DOMAIN gmapApt \cap DOMAIN gmapApt' : gmapApt'[k] = gmapApt[k]]_vars
    /\ []("TEST" \in DOMAIN gmapApt =>
             FirstRwyEnd("TEST").lat = IF thr.present[1] THEN 0 ELSE 2)
    /\ []("KXYZ" \in DOMAIN gmapApt => FirstRwyEnd("KXYZ").lat = 20)

\* the thread has read the default file to its end: the second definitions
\* of TEST and of KXYZ were met while both were registered, and the object
\* left over from KXYZ has taken a runway of a later record
C23_Witness ==
    /\ DOMAIN gmapApt = {"TEST", "KXYZ"}
    /\ \E j \in 1..NumThreads :
        /\ thr.w[j].pc = "eof"
        /\ thr.w[j].file = Len(ThreadFiles)
        /\ thr.w[j].line = Len(DefaultAptDat)
        /\ thr.w[j].apt.id = "KXYZ"
        /\ HasRwyEndpoints(thr.w[j].apt)

-----------------------------------------------------------------------------
(* Malformed lines                                                         *)

\* the headers that are followed by a well-formed runway record whose first
\* end lies in the search box: the well-formed airports of the file
WellFormedAirports ==
    {i \in 1..(Len(ret.lines) - 1) :
        /\ ret.lines[i].code = 1
        /\ ret.lines[i].nFields >= 5
        /\ ret.lines[i + 1].code = 100
        /\ ret.lines[i + 1].nFields = 26
        /\ ret.lines[i + 1] \notin GarbledLines
        /\ FirstEndInBox(ret.lines[i + 1])}

\* C24: a runway record, a 120 section or a 1201/1202 record that is too
\* short or holds text where a number is expected never ends the reading of
\* the file: the lines after it are read, and every well-formed airport of
\* the file is registered when the end of the file is reached.
C24_MalformedLineSkipped ==
    ret.file = "malformed" =>
        /\ phase # "threw"
        /\ phase = "done" =>
              \A i \in WellFormedAirports : ret.lines[i].id \in DOMAIN gmapApt

-----------------------------------------------------------------------------
(* A 1202 record with an index that is not in the node store               *)

\* this step reads a 1202 record that the parser hands to AddTaxiEdge and
\* whose first or second index is not an index of the airport's node store
ReadsEdgeOutOfRange ==
    /\ ret.op = "ReadOneAptFile"
    /\ Len(ret'.lines) = Len(ret.lines) + 1
    /\ ret'.lines[Len(ret'.lines)].code = 1202
    /\ ret'.lines[Len(ret'.lines)] \notin GarbledLines
    /\ HasRwyEndpoints(apt)
    /\ netwType # NETW_CENTERLINES
    /\ \/ ret'.lines[Len(ret'.lines)].n1 \notin 1..Len(apt.vecTaxiNodes)
       \/ ret'.lines[Len(ret'.lines)].n2 \notin 1..Len(apt.vecTaxiNodes)

\* C25: a 1202 record with a node index outside the airport's node store is
\* rejected: no edge is added, the airport is left as it was, and the
\* reading goes on with the next line.
C25_BadEdgeIndexRejected ==
    [][ReadsEdgeOutOfRange => (apt' = apt /\ phase' = "reading")]_vars

-----------------------------------------------------------------------------
(* The warning that no apt.dat file could be opened                        *)

\* C26: a reading thread that has ended has shown the warning only if
\* neither the apt.dat of a scenery pack nor the default apt.dat could be
\* opened; a thread that ended for another reason, such as the stop flag,
\* has not shown it.
C26_WarnOnlyIfNoFileOpens ==
    \A j \in 1..NumThreads :
        (thr.w[j].pc = "done" /\ thr.w[j].warned) =>
            \A f \in 1..Len(ThreadFiles) : ~thr.present[f]


-----------------------------------------------------------------------------
(* The altitudes of the runway endpoints                                   *)

\* the registered airports whose runway endpoints all have an altitude
AltKnown(a) == \A i \in 1..Len(a.vecRwyEndPts) : a.vecRwyEndPts[i].alt_m # NaN

\* LTAptUpdateRwyAltitudes has just run in LTAptRefresh
AltitudePassRan ==
    /\ ret.op = "LTAptRefresh"
    /\ thr.access.by = MainThread /\ thr.access.what = "update"

\* the scans and the shutdown, without the queries
NextAltitude ==
    \/ FgRefresh
    \/ FgDisable
    \/ FgDisableWait
    \/ FgDestroyYProbe
    \/ \E j \in 1..NumThreads : Worker(j)

\* LTAptDisable returns, and LTAptRefresh keeps being called while the
\* camera stays within the radius of the last scan
SpecAltitude ==
    /\ InitThreads /\ [][NextAltitude]_vars
    /\ WF_vars(FgDisableWait)
    /\ WF_vars(FgDestroyYProbe)
    /\ SF_vars(FgRefreshStay)

\* C27: the reading thread registers every airport with the altitudes of
\* all its runway endpoints NaN; once the thread has ended and airports
\* were added, calls of LTAptRefresh with the camera within the radius of
\* the last scan lead to one pass of LTAptUpdateRwyAltitudes, which holds
\* the lock of the map and after which every runway endpoint of every
\* registered airport has an altitude (unless a new scan is started
\* first); an altitude that is known is not changed by a later pass
C27_AltitudesFilledLater ==
    /\ [][ret'.op = "AsyncReadApt"
            => \A id \in DOMAIN gmapApt' \ DOMAIN gmapApt :
                 \A i \in 1..Len(gmapApt'[id].vecRwyEndPts) :
                    gmapApt'[id].vecRwyEndPts[i].alt_m = NaN]_vars
    /\ [](AltitudePassRan
            => thr.access.locked /\ \A id \in DOMAIN gmapApt : AltKnown(gmapApt[id]))
    /\ (~JobOutstanding
          /\ (thr.bAptsAdded \/ \E id \in DOMAIN gmapApt : ~AltKnown(gmapApt[id])))
          ~> ((AltitudePassRan /\ \A id \in DOMAIN gmapApt : AltKnown(gmapApt[id]))
              \/ JobOutstanding)
    /\ [][\A id \in DOMAIN gmapApt \cap DOMAIN gmapApt' :
            \A i \in 1..Len(gmapApt[id].vecRwyEndPts) :
                gmapApt[id].vecRwyEndPts[i].alt_m # NaN
                => /\ i <= Len(gmapApt'[id].vecRwyEndPts)
                   /\ gmapApt'[id].vecRwyEndPts[i].alt_m
                        = gmapApt[id].vecRwyEndPts[i].alt_m]_vars

\* a second pass has run, over terrain that is reported at another height,
\* and the airport of the first pass has kept its altitudes
C27_Witness ==
    /\ AltitudePassRan
    /\ YProbe_at_m(20, 0) = 3
    /\ "KXYZ" \in DOMAIN gmapApt
    /\ gmapApt["KXYZ"].vecRwyEndPts # <<>>
    /\ \A i \in 1..Len(gmapApt["KXYZ"].vecRwyEndPts) :
          gmapApt["KXYZ"].vecRwyEndPts[i].alt_m = 0


-----------------------------------------------------------------------------
(* When LTAptRefresh starts a scan                                         *)

\* the call of LTAptRefresh that has just returned started a reading thread
ScanStarted == ret.op = "LTAptRefresh" /\ ret.started

\* C28: a call of LTAptRefresh starts a reading thread only if none is in
\* flight, the camera position is valid, and the camera is at least
\* FdStdDistance_m away from the position of the last scan or there was no
\* scan yet; the call then records the camera position as lastCameraPos.
\* So no call with the camera closer than that to the last scan starts one.
C28_ScanOnlyAfterMoving ==
    [][ScanStarted' =>
        /\ JobsInFlight = {}
        /\ ret'.camera.lat # NaN /\ ret'.camera.lon # NaN
        /\ \/ thr.lastCameraPos.lat = NaN
           \/ thr.lastCameraPos.lon = NaN
           \/ DistLatLonSqr(thr.lastCameraPos.lat, thr.lastCameraPos.lon,
                            ret'.camera.lat, ret'.camera.lon)
                >= FdStdDistance_m * FdStdDistance_m
        /\ thr'.lastCameraPos = ret'.camera
        /\ JobsInFlight' # {}]_vars

\* the second scan: the camera has moved from (0,5), where TEST was
\* registered, to (40,5)
C28_Witness ==
    /\ ScanStarted
    /\ ret.camera = [lat |-> 40, lon |-> 5]
    /\ "TEST" \in DOMAIN gmapApt


-----------------------------------------------------------------------------
(* The taxi network under its four operations                              *)

MaxNetEdges == 3
\* coordinates of the nodes: <<lat, lon>>
NetPts == {<<0, 0>>, <<0, 6>>, <<1, 3>>}

\* nothing but the airport object, with no runway
InitNet ==
    /\ apt = NewApt(TestId)
    /\ gmapApt = NoApts
    /\ phase = "build"
    /\ netwType = NETW_UNKOWN
    /\ ret = NoCall
    /\ thr = NoThreads

\* Apt::AddTaxiNode(lat, lon, dontCombineWith)
NetAddTaxiNode ==
    /\ \E p \in NetPts, dont \in {ULONG_MAX} \cup (1..Len(apt.vecTaxiNodes)) :
        \E r \in {AddTaxiNode(apt, p[1], p[2], dont)} :
            /\ Len(r.apt.vecTaxiNodes) <= MaxNodes
            /\ apt' = r.apt
            /\ ret' = [op |-> "AddTaxiNode", idx |-> r.idx]
    /\ UNCHANGED <<gmapApt, phase, netwType, thr>>

\* Apt::AddTaxiEdge(n1, n2) between any two nodes there are
NetAddTaxiEdge ==
    /\ Len(apt.vecTaxiEdges) < MaxNetEdges
    /\ \E n1 \in 1..Len(apt.vecTaxiNodes), n2 \in 1..Len(apt.vecTaxiNodes) :
        \E r \in {AddTaxiEdge(apt, n1, n2)} :
            /\ apt' = r.apt
            /\ ret' = [op |-> "AddTaxiEdge", n1 |-> n1, n2 |-> n2, idx |-> r.idx,
                       threw |-> r.threw]
    /\ UNCHANGED <<gmapApt, phase, netwType, thr>>

\* Apt::SplitEdge(eIdx, insNode) of any edge by any node
NetSplitEdge ==
    /\ Len(apt.vecTaxiEdges) < MaxNetEdges
    /\ \E eIdx \in 1..Len(apt.vecTaxiEdges), insNode \in 1..Len(apt.vecTaxiNodes) :
        /\ apt' = SplitEdge(apt, eIdx, insNode)
        /\ ret' = [op |-> "SplitEdge", eIdx |-> eIdx, insNode |-> insNode,
                   was |-> apt.vecTaxiEdges[eIdx]]
    /\ UNCHANGED <<gmapApt, phase, netwType, thr>>

\* Apt::JoinOpenTaxiEdges, on the sorted index as Apt::AddApt calls it
NetJoinOpenTaxiEdges ==
    /\ \E a \in {JoinOpenTaxiEdges(SortTaxiEdges(apt))} :
        /\ Len(a.vecTaxiEdges) <= MaxNetEdges
        /\ apt' = a
    /\ ret' = [op |-> "JoinOpenTaxiEdges", edgesBefore |-> Len(apt.vecTaxiEdges)]
    /\ UNCHANGED <<gmapApt, phase, netwType, thr>>

NextNet ==
    \/ NetAddTaxiNode
    \/ NetAddTaxiEdge
    \/ NetSplitEdge
    \/ NetJoinOpenTaxiEdges

SpecNet == InitNet /\ [][NextNet]_vars

\* C29: in every state of the network, for every taxi node n and every
\* taxiway edge i, i is in the vecEdges of n if and only if n is the a or
\* the b of edge i
C29_IncidentEdgesConsistent ==
    ret.op \in {"none", "AddTaxiNode", "AddTaxiEdge", "SplitEdge", "JoinOpenTaxiEdges"} =>
    \A n \in 1..Len(apt.vecTaxiNodes), i \in 1..Len(apt.vecTaxiEdges) :
        apt.vecTaxiEdges[i].type = TAXI_WAY
        => (i \in SeqToSet(apt.vecTaxiNodes[n].vecEdges)
              <=> n \in {apt.vecTaxiEdges[i].a, apt.vecTaxiEdges[i].b})


-----------------------------------------------------------------------------
(* The index of the edges by angle, where it is searched                   *)

\* the airport as each call of FindClosestEdge in the loop of
\* JoinOpenTaxiEdges finds it, from node i on
RECURSIVE JoinSearches(_, _)
JoinSearches(a, i) ==
    IF i > Len(a.vecTaxiNodes) THEN {}
    ELSE (IF /\ Len(a.vecTaxiNodes[i].vecEdges) = 1
             /\ a.vecTaxiEdges[a.vecTaxiNodes[i].vecEdges[1]].type # RUN_WAY
          THEN {a} ELSE {})
         \cup JoinSearches(JoinNode(a, i), i + 1)

\* the airport as Apt::AddApt hands it to JoinOpenTaxiEdges
BeforeJoin(a) ==
    SortTaxiEdges([a EXCEPT !.bounds = enlarge_m(a.bounds, FdSnapTaxiDist_m)])

\* vecTaxiEdgesIdxHead holds every edge index once, in the order of the angles
IndexSorted(a) ==
    LET idx == a.vecTaxiEdgesIdxHead
    IN  /\ Len(idx) = Len(a.vecTaxiEdges)
        /\ SeqToSet(idx) = 1..Len(a.vecTaxiEdges)
        /\ \A k \in 1..(Len(idx) - 1) :
              a.vecTaxiEdges[idx[k]].angle <= a.vecTaxiEdges[idx[k + 1]].angle

-----------------------------------------------------------------------------
(* What one pass of the loop of JoinOpenTaxiEdges does                     *)

\* the passes of the loop from node i on: the airport before and after each
RECURSIVE JoinTrace(_, _)
JoinTrace(a, i) ==
    IF i > Len(a.vecTaxiNodes) THEN {}
    ELSE {[i |-> i, pre |-> a, post |-> JoinNode(a, i)]}
         \cup JoinTrace(JoinNode(a, i), i + 1)

\* the edge FindClosestEdge returns for node i in JoinOpenTaxiEdges, if the
\* node is looked at
JoinMatch(a, i) ==
    LET n == a.vecTaxiNodes[i]
    IN  IF Len(n.vecEdges) # 1 \/ a.vecTaxiEdges[n.vecEdges[1]].type = RUN_WAY
        THEN NoEdge
        ELSE FindClosestEdge(a, n.lat, n.lon, a.vecTaxiEdges[n.vecEdges[1]].angle,
                             APT_JOIN_MAX_DIST_M, APT_JOIN_ANGLE_TOLERANCE,
                             APT_JOIN_ANGLE_TOLERANCE_EXT, n.vecEdges[1])

\* the taxiway edges that start or end at node n
Incident(a, n) ==
    {k \in 1..Len(a.vecTaxiEdges) :
        /\ a.vecTaxiEdges[k].type = TAXI_WAY
        /\ n \in {a.vecTaxiEdges[k].a, a.vecTaxiEdges[k].b}}

\* the taxiway edges between nodes m and n
Between(a, m, n) ==
    {k \in 1..Len(a.vecTaxiEdges) :
        /\ a.vecTaxiEdges[k].type = TAXI_WAY
        /\ {a.vecTaxiEdges[k].a, a.vecTaxiEdges[k].b} = {m, n}}

\* one pass of the loop does what C31 says
JoinPassAsClaimed(t) ==
    LET m == JoinMatch(t.pre, t.i)
    IN  /\ Len(t.post.vecTaxiNodes) = Len(t.pre.vecTaxiNodes)
        /\ ~m.found => t.post = t.pre
        /\ m.found =>
            /\ Cardinality(Incident(t.pre, t.i)) = 1
            /\ m.eIdx \notin Incident(t.pre, t.i)
            /\ IF t.pre.vecTaxiEdges[m.eIdx].type = RUN_WAY
               THEN /\ t.post.vecTaxiEdges = t.pre.vecTaxiEdges
                    /\ t.post.vecTaxiNodes = t.pre.vecTaxiNodes
                    /\ \E r \in {t.pre.vecTaxiEdges[m.eIdx].a, t.pre.vecTaxiEdges[m.eIdx].b} :
                         \A q \in 1..Len(t.pre.vecRwyEndPts) :
                            t.post.vecRwyEndPts[q].vecTaxiNodes =
                                IF q = r THEN Append(t.pre.vecRwyEndPts[q].vecTaxiNodes, t.i)
                                ELSE t.pre.vecRwyEndPts[q].vecTaxiNodes
               ELSE /\ Len(t.post.vecTaxiEdges) = Len(t.pre.vecTaxiEdges) + 1
                    /\ Cardinality(Incident(t.post, t.i)) = 3
                    /\ \E k1 \in Between(t.post, t.pre.vecTaxiEdges[m.eIdx].a, t.i),
                          k2 \in Between(t.post, t.i, t.pre.vecTaxiEdges[m.eIdx].b) : k1 # k2

\* C31: JoinOpenTaxiEdges, as Apt::AddApt runs it, keeps the number of
\* nodes; it changes something only for a node with exactly one taxiway
\* edge, and never matches the node with an edge that starts or ends at
\* it; a match with a runway adds the node to the list of exactly one end
\* of that runway and changes nothing else; a match with a taxiway edge
\* adds exactly one edge, leaves the node with exactly three edges and
\* the two ends of the matched edge each joined to the node by an edge
C31_JoinAsClaimed ==
    [][ret'.op = "AddApt" => \A t \in JoinTrace(BeforeJoin(apt), 1) : JoinPassAsClaimed(t)]_vars


-----------------------------------------------------------------------------
(* A centerline section read into an airport that has nodes already        *)

MaxBlocks == 2
MaxBlockLen == 3
MaxNodesBefore == 2

\* the points of the node lines of a section: <<lat, lon>>
BlockPts == {<<0, 0>>, <<0, 1>>, <<0, 12>>, <<3, 0>>}

\* the sections offered: one to MaxBlockLen node lines
BlockRecs == UNION {[1..n -> BlockPts] : n \in 1..MaxBlockLen}

BlocksRead == IF ret.op = "ReadOneTaxiLine" THEN ret.n ELSE 0

\* nodes the airport has before the first section is read
BlockAddTaxiNode ==
    /\ BlocksRead = 0
    /\ Len(apt.vecTaxiNodes) < MaxNodesBefore
    /\ \E p \in BlockPts : apt' = AddTaxiNode(apt, p[1], p[2], ULONG_MAX).apt
    /\ ret' = [op |-> "AddTaxiNode"]
    /\ UNCHANGED <<gmapApt, phase, netwType, thr>>

\* ReadOneTaxiLine for one section; ret keeps the node lines and the
\* index AddTaxiNode gives the first of them
CallReadOneTaxiLine ==
    /\ BlocksRead < MaxBlocks
    /\ \E recs \in BlockRecs :
        /\ apt' = ReadOneTaxiLine(apt, recs)
        /\ ret' = [op |-> "ReadOneTaxiLine", recs |-> recs, n |-> BlocksRead + 1,
                   nodesBefore |-> Len(apt.vecTaxiNodes),
                   edgesBefore |-> Len(apt.vecTaxiEdges)]
    /\ UNCHANGED <<gmapApt, phase, netwType, thr>>

NextBlock ==
    \/ BlockAddTaxiNode
    \/ CallReadOneTaxiLine

SpecBlock == InitNode /\ [][NextBlock]_vars

\* C32: a section that leaves at least two points in vecNodes adds at
\* least one edge to the airport, whatever nodes the airport has, and every
\* edge it adds joins two different nodes: the last point does not become
\* the node of the first
C32_BlockAddsEdge ==
    (ret.op = "ReadOneTaxiLine" /\ Len(CollectNodes(ret.recs)) >= 2)
    => /\ Len(apt.vecTaxiEdges) > ret.edgesBefore
       /\ \A k \in (ret.edgesBefore + 1)..Len(apt.vecTaxiEdges) :
            /\ apt.vecTaxiEdges[k].type = TAXI_WAY
            /\ apt.vecTaxiEdges[k].a # apt.vecTaxiEdges[k].b

\* the second section read ends 1 m from where it starts, at a node that
\* was there before, and has added its edge and a node of its own
C32_Witness ==
    /\ ret.op = "ReadOneTaxiLine"
    /\ ret.n = 2
    /\ ret.recs = << <<0, 0>>, <<0, 1>> >>
    /\ ret.nodesBefore >= 2
    /\ Len(apt.vecTaxiNodes) > ret.nodesBefore
    /\ Len(apt.vecTaxiEdges) = ret.edgesBefore + 1

-----------------------------------------------------------------------------
(* Snapping a position of a flight's position deque: the deque, the       *)
(* iterator of the caller and the aircraft's to-position                  *)

\* dequePositionTy::insert(posIter, insPos): insPos goes before posIter
DequeInsert(posDeque, posIter, insPos) ==
    SubSeq(posDeque, 1, posIter - 1) \o <<insPos>>
        \o SubSeq(posDeque, posIter, Len(posDeque))

\* the insertion loop that forgets to move posIter on to the passed-in
\* element again
RECURSIVE InsertPathNoAdvance(_, _, _, _)
InsertPathNoAdvance(posDeque, posIter, inserted, k) ==
    IF k > Len(inserted) THEN [posDeque |-> posDeque, posIter |-> posIter]
    ELSE InsertPathNoAdvance(DequeInsert(posDeque, posIter, inserted[k]),
                             posIter, inserted, k + 1)

\* the insertion loop of SnapToTaxiway from the k-th inserted position on:
\* posIter = fd.posDeque.insert(posIter, insPos); ++posIter
RECURSIVE InsertPath(_, _, _, _)
InsertPath(posDeque, posIter, inserted, k) ==
    IF k > Len(inserted) THEN [posDeque |-> posDeque, posIter |-> posIter]
    ELSE InsertPath(DequeInsert(posDeque, posIter, inserted[k]),
                    posIter + 1, inserted, k + 1)

\* the write through positionTy& pos = *posIter that misses its element
StorePosAtBegin(posDeque, posIter, pos) == [posDeque EXCEPT ![1] = pos]
\* positionTy& pos = *posIter: what SnapToTaxiway does to pos it does to
\* the element of the deque
StorePos(posDeque, posIter, pos) == [posDeque EXCEPT ![posIter] = pos]

\* a position of the deque, or the to-position, as the previous position
AsPrevPos(p) ==
    [has |-> TRUE, lat |-> p.lat, lon |-> p.lon, heading |-> p.heading,
     ts |-> p.ts, edgeIdx |-> p.edgeIdx]

\* the previous position SnapToTaxiway works with: the predecessor in
\* fd.posDeque, else the aircraft's to-position, else none
PrevPosOf(fd, posIter) ==
    IF posIter = 1
    THEN IF fd.hasAc THEN AsPrevPos(fd.toPos) ELSE NoPrevPos
    ELSE AsPrevPos(fd.posDeque[posIter - 1])

\* what Apt::SnapToTaxiway(fd, posIter) leaves of the deque and of posIter,
\* r being what it found for *posIter: [posDeque, posIter]
SnapToTaxiwayFd(fd, posIter, r) ==
    InsertPath(StorePos(fd.posDeque, posIter, r.pos), posIter, r.inserted, 1)

\* [s] the time stamp of the reported position; the previous one has 0
DequeTimes == {1, 9}
\* the position that follows the reported one in the deque, if any
DequeNextPos == positionTy(9, 9, 0, 20)
\* the positions before the reported one: on an edge, at its first node,
\* heading along it, the edge looked up, not looked up or not found
DequePrevs ==
    {[lat |-> GetA(Reg, Reg.vecTaxiEdges[i]).lat,
      lon |-> GetA(Reg, Reg.vecTaxiEdges[i]).lon,
      heading |-> Reg.vecTaxiEdges[i].angle, ts |-> 0,
      edgeIdx |-> i, flightPhase |-> FPH_TAXI] : i \in 1..Len(Reg.vecTaxiEdges)}
    \cup
    {[lat |-> GetA(Reg, Reg.vecTaxiEdges[1]).lat,
      lon |-> GetA(Reg, Reg.vecTaxiEdges[1]).lon,
      heading |-> Reg.vecTaxiEdges[1].angle, ts |-> 0,
      edgeIdx |-> k, flightPhase |-> FPH_UNKNOWN] : k \in {EDGE_UNKNOWN, EDGE_UNAVAIL}}
\* the flights a position pos is reported for, with the iterator of pos:
\* pos is the first of the deque, with or without an aircraft, or follows
\* a position in the deque
DequeFlights(pos) ==
    {[fd |-> [hasAc |-> FALSE, toPos |-> DequeNextPos, posDeque |-> <<pos>>],
      posIter |-> 1]}
    \cup
    {[fd |-> [hasAc |-> TRUE, toPos |-> prev, posDeque |-> <<pos>>], posIter |-> 1] :
        prev \in DequePrevs}
    \cup
    {[fd |-> [hasAc |-> FALSE, toPos |-> DequeNextPos,
              posDeque |-> <<prev, pos>> \o rest], posIter |-> 2] :
        prev \in DequePrevs, rest \in {<<>>, <<DequeNextPos>>}}

\* LTAptSnap(fd, posIter) -> Apt::SnapToTaxiway(fd, posIter) for a position
\* of the published airport
CallSnapToTaxiwayFd ==
    /\ phase = "published"
    /\ ret.op # "SnapToTaxiwayFd"
    /\ \E p \in SnapPts, i \in 1..Len(Reg.vecTaxiEdges), flip \in {0, 180},
          ts \in DequeTimes :
        \E pos \in {positionTy(p[1], p[2], (Reg.vecTaxiEdges[i].angle + flip) % 360, ts)} :
        \E f \in DequeFlights(pos) :
        \E r \in {SnapToTaxiway(Reg, pos, PrevPosOf(f.fd, f.posIter))} :
        \E l \in {SnapToTaxiwayFd(f.fd, f.posIter, r)} :
            /\ gmapApt' = [gmapApt EXCEPT ![TestId] = r.apt]
            /\ ret' = [op |-> "SnapToTaxiwayFd", before |-> Reg, fd |-> f.fd,
                       posIter |-> f.posIter, ok |-> r.ok,
                       posDeque |-> l.posDeque, newIter |-> l.posIter]
    /\ UNCHANGED <<apt, phase, netwType>>
    /\ UNCHANGED thr

NextDeque ==
    \/ PathAddRwy
    \/ PathAddNode
    \/ PathAddEdge
    \/ PathPublish
    \/ CallSnapToTaxiwayFd

SpecDeque == InitPath /\ [][NextDeque]_vars


\* the position the last call of SnapToTaxiway was made for
SnappedPos == ret.fd.posDeque[ret.posIter]
\* FindClosestEdge finds no edge for it in the airport as it was
NoEdgeInReach ==
    /\ ret.op = "SnapToTaxiwayFd"
    /\ ~FindClosestEdge(ret.before, SnappedPos.lat, SnappedPos.lon, SnappedPos.heading,
                        FdSnapTaxiDist_m, ART_EDGE_ANGLE_TOLERANCE,
                        ART_EDGE_ANGLE_TOLERANCE_EXT, ULONG_MAX).found

\* C33: when FindClosestEdge finds no edge for the position within the snap
\* distance and the heading tolerances, SnapToTaxiway returns false, the
\* position's edgeIdx is EDGE_UNAVAIL, and nothing else has changed: the
\* position is where it was, the other positions of the deque and the
\* iterator are as they were, and so is the airport.
C33_NoEdgeOnlyTags ==
    NoEdgeInReach =>
        /\ ~ret.ok
        /\ ret.posDeque[ret.posIter].edgeIdx = EDGE_UNAVAIL
        /\ ret.posDeque = [ret.fd.posDeque EXCEPT ![ret.posIter].edgeIdx = EDGE_UNAVAIL]
        /\ ret.newIter = ret.posIter
        /\ Reg = ret.before

\* a position between two others, out of reach of the edges of an airport
\* with taxiways, was not snapped
C33_Witness ==
    /\ NoEdgeInReach
    /\ Len(ret.fd.posDeque) = 3
    /\ ret.posIter = 2
    /\ NumTaxiEdges(ret.before) >= 2
    /\ ~ret.ok


\* what the last call of SnapToTaxiway started from, looked at again: the
\* edge found for the position, the previous position, and the path from
\* the previous position's edge to the edge found
SnapFound ==
    FindClosestEdge(ret.before, SnappedPos.lat, SnappedPos.lon, SnappedPos.heading,
                    FdSnapTaxiDist_m, ART_EDGE_ANGLE_TOLERANCE,
                    ART_EDGE_ANGLE_TOLERANCE_EXT, ULONG_MAX)
SnapPrev == PrevPosOf(ret.fd, ret.posIter)
SnapPrevResolved == SnapPrev.has /\ SnapPrev.edgeIdx \in 1..Len(ret.before.vecTaxiEdges)
SnapPath ==
    LET prevE == ret.before.vecTaxiEdges[SnapPrev.edgeIdx]
        fromRwy == prevE.type = RUN_WAY
    IN  ShortestPath(ret.before,
                     IF fromRwy THEN startByHeading(prevE, SnapPrev.heading)
                     ELSE endByHeading(prevE, SnapPrev.heading),
                     fromRwy,
                     startByHeading(ret.before.vecTaxiEdges[SnapFound.eIdx],
                                    SnappedPos.heading),
                     ((SnappedPos.ts - SnapPrev.ts) * MAX_TAXI_SPEED * 3) \div 2).path
\* all that the insertion of positions asks for
MayInsert ==
    /\ SnapFound.found
    /\ ret.before.vecTaxiEdges[SnapFound.eIdx].type = TAXI_WAY
    /\ SnapPrevResolved
    /\ SnapPrev.edgeIdx # SnapFound.eIdx
    /\ Len(SnapPath) >= 2
\* the deque holds the positions it held, in their order, the snapped one
\* possibly changed, and the iterator is where it was
DequeKept ==
    /\ Len(ret.posDeque) = Len(ret.fd.posDeque)
    /\ \A k \in 1..Len(ret.posDeque) : k # ret.posIter => ret.posDeque[k] = ret.fd.posDeque[k]
    /\ ret.newIter = ret.posIter

\* C34: SnapToTaxiway inserts positions only if the edge found is a taxiway,
\* there is a previous position with a taxi edge, that edge is not the edge
\* found, and ShortestPath returned two nodes or more; in every other case
\* the deque keeps its length and the order of its positions.
C34_InsertsOnlyWithPath ==
    ret.op = "SnapToTaxiwayFd" =>
        /\ Len(ret.posDeque) # Len(ret.fd.posDeque) => MayInsert
        /\ ~MayInsert => DequeKept

\* a position was snapped to a taxiway with a previous position on another
\* edge, the path between them has one node, and nothing was inserted
C34_Witness ==
    /\ ret.op = "SnapToTaxiwayFd"
    /\ ret.ok
    /\ SnapFound.found
    /\ ret.before.vecTaxiEdges[SnapFound.eIdx].type = TAXI_WAY
    /\ SnapPrevResolved
    /\ SnapPrev.edgeIdx # SnapFound.eIdx
    /\ Len(SnapPath) = 1
    /\ DequeKept
\* positions were inserted
PathInserted ==
    /\ ret.op = "SnapToTaxiwayFd"
    /\ Len(ret.posDeque) > Len(ret.fd.posDeque)


\* the positions the last call inserted, in the order of the deque
Synthesized == SubSeq(ret.posDeque, ret.posIter, ret.newIter - 1)

\* C38: the time stamps of the positions SnapToTaxiway inserts do not
\* decrease along the deque, and none is before the previous position's or
\* after the reported position's, whether the previous position was on a
\* taxiway or on a runway, whatever the time between the two.
C38_TimestampsBetween ==
    PathInserted =>
        /\ \A k \in 1..Len(Synthesized) :
              /\ Synthesized[k].ts # NaN
              /\ SnapPrev.ts <= Synthesized[k].ts
              /\ Synthesized[k].ts <= SnappedPos.ts
        /\ \A k \in 1..(Len(Synthesized) - 1) : Synthesized[k].ts <= Synthesized[k + 1].ts


\* C35: when SnapToTaxiway inserts a path, the deque holds what it held up
\* to the previous position, then one position for each node of the path,
\* from the node the path starts with to its last, each with edgeIdx
\* EDGE_UNAVAIL so that it is never snapped, then the reported position,
\* then what followed it, unchanged; and posIter is at the reported
\* position again.
C35_PathSplicedBeforeReport ==
    PathInserted =>
        LET n == Len(SnapPath)
            nodes == ret.before.vecTaxiNodes
        IN  /\ Len(ret.posDeque) = Len(ret.fd.posDeque) + n
            /\ ret.newIter = ret.posIter + n
            /\ SubSeq(ret.posDeque, 1, ret.posIter - 1)
                  = SubSeq(ret.fd.posDeque, 1, ret.posIter - 1)
            /\ \A k \in 1..n :
                  LET p == ret.posDeque[ret.posIter + k - 1]
                  IN  /\ p.lat = nodes[SnapPath[n - k + 1]].lat
                      /\ p.lon = nodes[SnapPath[n - k + 1]].lon
                      /\ p.edgeIdx = EDGE_UNAVAIL
                      /\ ~HasTaxiEdge(p)
                      /\ p.flightPhase = FPH_TAXI
            /\ ret.posDeque[ret.newIter].ts = SnappedPos.ts
            /\ ret.posDeque[ret.newIter].heading = SnappedPos.heading
            /\ ret.posDeque[ret.newIter].edgeIdx = SnapFound.eIdx
            /\ SubSeq(ret.posDeque, ret.newIter + 1, Len(ret.posDeque))
                  = SubSeq(ret.fd.posDeque, ret.posIter + 1, Len(ret.fd.posDeque))

\* a path of two nodes or more was inserted between a previous position and
\* the reported one, which another position follows
C35_Witness ==
    /\ PathInserted
    /\ ret.posIter = 2
    /\ Len(ret.fd.posDeque) = 3
    /\ Len(Synthesized) >= 2
    /\ ret.posDeque[Len(ret.posDeque)] = DequeNextPos
    /\ Reg.vecTaxiNodes[SnapPath[1]].pathLen > Reg.vecTaxiNodes[SnapPath[2]].pathLen


-----------------------------------------------------------------------------
(* Searching the closest edge of a published airport                       *)

\* the headings searched for, the distances allowed and the edges skipped
ClosestHeadings == {0, 20, 40, 100, 135, 270}
ClosestMaxDists == {2, 3}
ClosestSkips == {ULONG_MAX, 2, 3}

\* FindClosestEdge(pos, basePt, _maxDist_m, _angleTolerance,
\* _angleToleranceExt, pSkipEdge, pEdgeIdx) with the tolerances of snapping
CallFindClosestEdge ==
    /\ phase = "published"
    /\ ret.op # "FindClosestEdge"
    /\ \E p \in SnapPts, heading \in ClosestHeadings, maxDist_m \in ClosestMaxDists,
          skipEdge \in ClosestSkips :
        \E r \in {FindClosestEdge(Reg, p[1], p[2], heading, maxDist_m,
                                  ART_EDGE_ANGLE_TOLERANCE,
                                  ART_EDGE_ANGLE_TOLERANCE_EXT, skipEdge)} :
            ret' = [op |-> "FindClosestEdge", lat |-> p[1], lon |-> p[2],
                    heading |-> heading, maxDist_m |-> maxDist_m,
                    skipEdge |-> skipEdge, found |-> r.found,
                    eIdx |-> IF r.found THEN r.eIdx ELSE EDGE_UNKNOWN]
    /\ UNCHANGED <<apt, gmapApt, phase, netwType>>
    /\ UNCHANGED thr

NextClosest ==
    \/ PathAddRwy
    \/ PathAddNode
    \/ PathAddEdge
    \/ PathPublish
    \/ CallFindClosestEdge

SpecClosest == InitPath /\ [][NextClosest]_vars

\* the distances of the searched position to the edge i, from its nodes
EdgeDist(i) ==
    DistPointToLineSqr(ret.lat, ret.lon, GetA(Reg, Reg.vecTaxiEdges[i]),
                       GetB(Reg, Reg.vecTaxiEdges[i]))
\* the edge i runs within the first / the second priority tolerance of the
\* heading searched for, one way or the other
FirstPrio(i) ==
    LineAngleDiff(Reg.vecTaxiEdges[i].angle, ret.heading % 180) <= ART_EDGE_ANGLE_TOLERANCE
SecondPrio(i) ==
    LineAngleDiff(Reg.vecTaxiEdges[i].angle, ret.heading % 180)
        <= Max(ART_EDGE_ANGLE_TOLERANCE, ART_EDGE_ANGLE_TOLERANCE_EXT)
\* the edges that may be returned
Admissible ==
    {i \in 1..Len(Reg.vecTaxiEdges) :
        /\ SecondPrio(i)
        /\ i # ret.skipEdge
        /\ EdgeDist(i).cross2 <= Sqr(ret.maxDist_m) * EdgeDist(i).len2
        /\ BeyondTimesLen2(EdgeDist(i)) <= Sqr(ret.maxDist_m) * EdgeDist(i).len2}
\* the prioritised squared distance of the edge i, times len2 of the edge
PrioTimesLen2(i) ==
    EdgeDist(i).cross2 + (IF FirstPrio(i) THEN 0 ELSE SCND_PRIO_ADD * EdgeDist(i).len2)

\* C36: FindClosestEdge returns an admissible edge (within the wider heading
\* tolerance, not the skipped edge, no farther than the maximum distance,
\* the base point no more than the maximum distance beyond the edge's ends)
\* whose prioritised squared distance, the squared distance plus
\* SCND_PRIO_ADD outside the first tolerance, no admissible edge undercuts;
\* and it returns none exactly when no edge is admissible.
C36_ClosestAdmissible ==
    ret.op = "FindClosestEdge" =>
        /\ ret.found <=> Admissible # {}
        /\ ret.found =>
            /\ ret.eIdx \in Admissible
            /\ \A j \in Admissible :
                  PrioTimesLen2(ret.eIdx) * EdgeDist(j).len2
                      <= PrioTimesLen2(j) * EdgeDist(ret.eIdx).len2

\* a first priority edge was returned although an admissible second
\* priority edge is closer, and another edge was skipped or too far beyond
C36_Witness ==
    /\ ret.op = "FindClosestEdge"
    /\ ret.found
    /\ FirstPrio(ret.eIdx)
    /\ \E j \in Admissible :
          /\ ~FirstPrio(j)
          /\ EdgeDist(j).cross2 * EdgeDist(ret.eIdx).len2
                < EdgeDist(ret.eIdx).cross2 * EdgeDist(j).len2
    /\ \E k \in 1..Len(Reg.vecTaxiEdges) :
          /\ k \notin Admissible
          /\ SecondPrio(k)
          /\ EdgeDist(k).cross2 <= Sqr(ret.maxDist_m) * EdgeDist(k).len2


-----------------------------------------------------------------------------
\* the calls that work on published airports without filling in altitudes
ReadingCalls ==
    {"SnapToTaxiwayFd", "SnapToTaxiway", "LTAptSnap", "ShortestPath", "LTAptFindRwy",
     "LTAptRefresh"}

\* C37: once an airport is in gmapApt, SnapToTaxiway, ShortestPath,
\* LTAptFindRwy and LTAptRefresh leave it as it is, as long as it stays in
\* the map: no field of its nodes, edges, runway endpoints, bounds or
\* heading index changes.
C37_PublishedNotMutated ==
    [][ret'.op \in ReadingCalls =>
          \A id \in DOMAIN gmapApt \cap DOMAIN gmapApt' : gmapApt'[id] = gmapApt[id]]_vars


-----------------------------------------------------------------------------
\* the reading thread j has processed every line of the airport it holds:
\* the line it read last is the header of the next airport, or its file is
\* at its end with no line waiting to be processed
AirportReadToEnd(j) ==
    \/ thr.w[j].cont = "count"
    \/ AtEof(thr.w[j]) /\ ~thr.w[j].given

\* C39: an airport is put into gmapApt only after all its lines, up to the
\* header of the next airport or the end of the file, were processed; a
\* thread that bStopThread stops inside an airport does not add it.
C39_AddedOnlyWhenReadToEnd ==
    [][\A j \in 1..NumThreads :
          (thr.w[j].pc = "emplace" /\ thr'.w[j].pc # "emplace") => AirportReadToEnd(j)]_vars


-----------------------------------------------------------------------------
\* a taxiway edge joins the nodes m and n
Joined(m, n) ==
    \E i \in TaxiEdgeIdxs :
        \/ Reg.vecTaxiEdges[i].a = m /\ Reg.vecTaxiEdges[i].b = n
        \/ Reg.vecTaxiEdges[i].a = n /\ Reg.vecTaxiEdges[i].b = m

\* C40: a non-empty path returned by ShortestPath begins with the
\* destination, each of its nodes is joined to the next by a taxiway edge,
\* no node is in it twice, and its last node is a start node or is joined
\* to a start node by a taxiway edge.
C40_PathIsSimpleWalk ==
    Found =>
        /\ ret.path[1] = ret.endN
        /\ \A k \in 1..(Len(ret.path) - 1) : Joined(ret.path[k], ret.path[k + 1])
        /\ \A i, j \in 1..Len(ret.path) : i # j => ret.path[i] # ret.path[j]
        /\ \A k \in 1..Len(ret.path) : ret.path[k] \in 1..Len(Reg.vecTaxiNodes)
        /\ \/ ret.path[Len(ret.path)] \in StartNodes
           \/ \E s \in StartNodes : Joined(ret.path[Len(ret.path)], s)

\* a path of three nodes from a runway endpoint, none of them a start node
C40_Witness ==
    /\ Found
    /\ ret.bStartIsRwy
    /\ Len(ret.path) = 3
    /\ \A k \in 1..3 : ret.path[k] \notin StartNodes
    /\ Joined(ret.path[3], PathStart)

=============================================================================
